---- MODULE Spec2Model ----
(***************************************************************************)
(* A model of the valleys runtime validator library (src/src/index.ts):    *)
(* the validator factories string, number, boolean, constant, array,       *)
(* object, iso8601, or, null_, undefined_, the error nodes they return,    *)
(* the formatter formatError / formatErrorPath, the ValidationError class  *)
(* and the entry point validate.                                           *)
(*                                                                         *)
(* JavaScript values are records [k, n, s]: k is the kind, n the numeric   *)
(* payload (the number, the truth value, or the heap address of an array   *)
(* or object) and s the textual payload (the characters of a string, or    *)
(* the mark of a number that is not an ordinary one: "-0").                *)
(* Arrays and objects live in the heap; a value of kind "array" or         *)
(* "object" is a reference, so that two values are the same reference      *)
(* exactly when they are equal records.                                    *)
(***************************************************************************)
EXTENDS Integers, Sequences, FiniteSets, TLC

VARIABLES heap, op, validator, input, result, calls, thrown, tasks, locals

vars == <<heap, op, validator, input, result, calls, thrown, tasks, locals>>

(***************************************************************************)
(* Bounds of the model.                                                    *)
(***************************************************************************)
\* longest array of the generated input arrays
MaxLen == 2
\* most invocations of one validator on one input in a row
MaxRepeat == 3
\* deepest nesting of combinators in the generated validators
MaxDepth == 2
\* largest integer whose decimal text is recognised as an integer-like key
MaxIndexKey == 3

(***************************************************************************)
(* JavaScript values.                                                      *)
(***************************************************************************)
Undef == [k |-> "undefined", n |-> 0, s |-> ""]
Null == [k |-> "null", n |-> 0, s |-> ""]
Bool(b) == [k |-> "boolean", n |-> IF b THEN 1 ELSE 0, s |-> ""]
Num(i) == [k |-> "number", n |-> i, s |-> ""]
NegZero == [k |-> "number", n |-> 0, s |-> "-0"]
Str(t) == [k |-> "string", n |-> 0, s |-> t]
BigInt(i) == [k |-> "bigint", n |-> i, s |-> ""]
ArrRef(a) == [k |-> "array", n |-> a, s |-> ""]
ObjRef(a) == [k |-> "object", n |-> a, s |-> ""]
\* a function, known by its name
Function(name) == [k |-> "function", n |-> 0, s |-> name]
\* the numbers that are not finite
NaN == [k |-> "number", n |-> 0, s |-> "NaN"]
Infinity == [k |-> "number", n |-> 0, s |-> "Infinity"]
NegInfinity == [k |-> "number", n |-> 0, s |-> "-Infinity"]
\* a regular expression literal /source/
RegExp(source) == [k |-> "regexp", n |-> 0, s |-> source]
\* new Date(), new Map(), new Set(): objects that no object literal made
DateObject == [k |-> "date", n |-> 0, s |-> ""]
MapObject == [k |-> "map", n |-> 0, s |-> ""]
SetObject == [k |-> "set", n |-> 0, s |-> ""]
\* Symbol(description)
Symbol(description) == [k |-> "symbol", n |-> 0, s |-> description]

\* typeof input
typeof(v) ==
    CASE v.k = "null" -> "object"
      [] v.k = "array" -> "object"
      [] v.k \in {"regexp", "date", "map", "set"} -> "object"
      [] OTHER -> v.k

\* Array.isArray(input)
isArray(v) == v.k = "array"

\* Number.isFinite(input), for an input whose typeof is "number"
isFinite(v) == v.k = "number" /\ v.s \in {"", "-0"}

\* a === b: numbers compare by numeric value (so -0 === 0, and NaN equals
\* nothing, itself included), everything else by kind and payload
\* (references by address)
StrictEquals(a, b) ==
    IF a.k = "number" /\ b.k = "number"
    THEN /\ a # NaN
         /\ b # NaN
         /\ IF isFinite(a) /\ isFinite(b) THEN a.n = b.n ELSE a = b
    ELSE a = b

\* input.length of a string or of an array
length(h, v) == IF v.k = "array" THEN Len(h[v.n].elems) ELSE Len(v.s)

\* input[i] of an array, i counted from 0 as in the source
index(h, v, i) == h[v.n].elems[i + 1]

\* the positions of the entries of an object that hold the key p
EntriesOf(h, v, p) == {j \in 1..Len(h[v.n].entries) : h[v.n].entries[j].key = p}

\* the methods every object inherits from Object.prototype
ObjectPrototype ==
    {"constructor", "hasOwnProperty", "isPrototypeOf", "propertyIsEnumerable",
     "toLocaleString", "toString", "valueOf"}

\* input[property]: the own property of an object made by an object
\* literal, else the property inherited from Object.prototype, else
\* undefined
property(h, v, p) ==
    IF v.k = "object" /\ EntriesOf(h, v, p) # {}
    THEN h[v.n].entries[CHOOSE j \in EntriesOf(h, v, p) : TRUE].val
    ELSE IF p \in ObjectPrototype
    THEN Function(p)
    ELSE Undef

(***************************************************************************)
(* Object.keys: the own keys of an object literal, integer-like keys first *)
(* in ascending numeric order, then the other keys in insertion order.     *)
(* An object literal is a sequence of [key, val] entries in the order in   *)
(* which they were written.                                                *)
(***************************************************************************)
IsIndexKey(p) == \E i \in 0..MaxIndexKey : ToString(i) = p

KeysOf(entries) == [j \in 1..Len(entries) |-> entries[j].key]

RECURSIVE IndexKeysFrom(_, _)
IndexKeysFrom(keyset, i) ==
    IF i > MaxIndexKey
    THEN <<>>
    ELSE (IF ToString(i) \in keyset THEN <<ToString(i)>> ELSE <<>>)
             \o IndexKeysFrom(keyset, i + 1)

IsOtherKey(p) == ~IsIndexKey(p)

ObjectKeys(entries) ==
    IndexKeysFrom({entries[j].key : j \in 1..Len(entries)}, 0)
        \o SelectSeq(KeysOf(entries), IsOtherKey)

\* validators[k] of the object literal handed to object()
Lookup(entries, p) ==
    entries[CHOOSE j \in 1..Len(entries) : entries[j].key = p].val

(***************************************************************************)
(* Results and error nodes.  A result is {value} or {error}; the field     *)
(* that is not set reads undefined.                                        *)
(***************************************************************************)
Success(v) == [value |-> v, error |-> Undef]
Failure(e) == [value |-> Undef, error |-> e]

\* { type: "schema-violation", data: input, context: { schema: this.schema, rules: this.rules } }
SchemaViolation(this, v) ==
    [type |-> "schema-violation", data |-> v,
     context |-> [schema |-> this.schema, rules |-> this.rules]]

\* { type: "rule-violation", rule, data: input, context: { schema: this.schema, rules: this.rules } }
RuleViolation(this, rule, v) ==
    [type |-> "rule-violation", rule |-> rule, data |-> v,
     context |-> [schema |-> this.schema, rules |-> this.rules]]

\* an array-index node that counts the elements from 1
ArrayIndexErrorNode_fromOne(v, i, node) ==
    [type |-> "array-index", data |-> v,
     entry |-> [index |-> i + 1, node |-> node]]

\* { type: "array-index", data: input, entry: { index: i, node: result.error } }
ArrayIndexErrorNode(v, i, node) ==
    [type |-> "array-index", data |-> v, entry |-> [index |-> i, node |-> node]]

\* an object-property node that collects failures in a list next to its
\* entry
ObjectPropertyErrorNode_collecting(v, p, node) ==
    [type |-> "object-property", data |-> v,
     entry |-> [property |-> p, node |-> node], others |-> <<node>>]

\* { type: "object-property", data: input, entry: { property, node: res.error } }
ObjectPropertyErrorNode(v, p, node) ==
    [type |-> "object-property", data |-> v,
     entry |-> [property |-> p, node |-> node]]

(***************************************************************************)
(* What a call throws: a record [name, root, message].  NoThrow stands for *)
(* a call that returns.                                                    *)
(***************************************************************************)
NoThrow == [name |-> "", root |-> Undef, message |-> ""]

\* new Error(message)
Error(message) == [name |-> "Error", root |-> Undef, message |-> message]

(***************************************************************************)
(* Validators.  A validator is the object its factory returns: the fields  *)
(* schema and rules, and the variables its unstable_validate closes over   *)
(* (rules, value, validator, properties and _validators).  schema is a     *)
(* record [type, item, properties, value]: item lists the item schema of   *)
(* an array (none when there is no item validator) or the alternatives of  *)
(* a union; rules is the sequence of the [name, val] entries of the rules  *)
(* object in the order the factory writes them.  declared is not a field   *)
(* of the program's validator: it remembers the keys of the literal given  *)
(* to object() in the order they were written.                             *)
(***************************************************************************)
Schema(t) == [type |-> t, item |-> <<>>, properties |-> <<>>, value |-> ""]

NoRules ==
    [minLength |-> Undef, maxLength |-> Undef, pattern |-> Undef,
     min |-> Undef, max |-> Undef]

Rule(name, val) == [name |-> name, val |-> val]

BaseValidator(kind) ==
    [kind |-> kind, schema |-> Schema(kind), rules |-> <<>>,
     closedRules |-> NoRules, value |-> Undef, validators |-> <<>>,
     properties |-> <<>>, hasItem |-> FALSE, returns |-> Success(Undef),
     throws |-> NoThrow, declared |-> <<>>]

\* String(value) of the literal given to constant()
String(v) ==
    CASE v.k = "undefined" -> "undefined"
      [] v.k = "null" -> "null"
      [] v.k = "boolean" -> (IF v.n = 1 THEN "true" ELSE "false")
      [] v.k = "number" -> (IF v.s \in {"", "-0"} THEN ToString(v.n) ELSE v.s)
      [] v.k = "bigint" -> ToString(v.n)
      [] OTHER -> v.s

\* the rules object keeps minLength and maxLength only, whatever else the
\* argument holds
string(rules) ==
    [BaseValidator("string") EXCEPT
        !.rules = <<Rule("minLength", rules.minLength),
                    Rule("maxLength", rules.maxLength)>>,
        !.closedRules = rules]

number(rules) ==
    [BaseValidator("number") EXCEPT
        !.rules = <<Rule("min", rules.min), Rule("max", rules.max)>>,
        !.closedRules = rules]

boolean == BaseValidator("boolean")

constant(value) ==
    [BaseValidator("constant") EXCEPT
        !.schema = [Schema("constant") EXCEPT !.value = String(value)],
        !.value = value]

null_ == BaseValidator("null")

undefined_ == BaseValidator("undefined")

iso8601 == BaseValidator("iso8601")

\* array(), array(rules), array(validator), array(validator, rules): item is
\* the sequence holding the item validator, empty when there is none
array(item, rules) ==
    [BaseValidator("array") EXCEPT
        !.schema = [Schema("array") EXCEPT
                       !.item = [j \in 1..Len(item) |-> item[j].schema]],
        !.rules = <<Rule("minLength", rules.minLength)>>,
        !.closedRules = [NoRules EXCEPT !.minLength = rules.minLength],
        !.validators = item,
        !.hasItem = Len(item) > 0]

\* object(), object(validators): validators is the object literal, a
\* sequence of [key, val] entries in declaration order
object(validators) ==
    LET properties == ObjectKeys(validators)
        _validators == [j \in 1..Len(properties) |->
                           Lookup(validators, properties[j])]
    IN  [BaseValidator("object") EXCEPT
            !.schema = [Schema("object") EXCEPT
                           !.properties =
                               [j \in 1..Len(properties) |->
                                   [key |-> properties[j],
                                    val |-> _validators[j].schema]]],
            !.validators = _validators,
            !.properties = properties,
            !.declared = KeysOf(validators)]

or(validators) ==
    [BaseValidator("or") EXCEPT
        !.schema = [Schema("or") EXCEPT
                       !.item = [j \in 1..Len(validators) |->
                                    validators[j].schema]],
        !.validators = validators]

\* a caller-supplied validator, as the mocks of validate.test.ts: an object
\* whose unstable_validate returns a fixed result
custom(returns) ==
    [BaseValidator("custom") EXCEPT !.returns = returns]

\* a caller-supplied validator whose unstable_validate throws, as the
\* throwingValidator of or.test.ts
throwing(fault) ==
    [BaseValidator("custom") EXCEPT !.throws = fault]

(***************************************************************************)
(* unstable_validate.  Every operator below returns an outcome             *)
(* [res, calls, writes]: res is the result the method returns; calls is    *)
(* the sequence of the unstable_validate invocations it made, in the order *)
(* they were made, each a record [validator, input, res, depth] (the       *)
(* invocations an invocation makes follow it, one level deeper); writes is *)
(* the sequence of the assignments [addr, cell] it made to arrays and      *)
(* objects of the heap.  No method of the library assigns to its input.    *)
(***************************************************************************)
Outcome(res, made, written) ==
    [res |-> res, calls |-> made, writes |-> written, fault |-> NoThrow]

\* the method threw: there is no result
Throws(fault, made, written) ==
    [res |-> Success(Undef), calls |-> made, writes |-> written,
     fault |-> fault]

Call(this, v, res) ==
    [validator |-> this, input |-> v, res |-> res, depth |-> 0,
     fault |-> NoThrow]

CallThrew(this, v, fault) ==
    [validator |-> this, input |-> v, res |-> Success(Undef), depth |-> 0,
     fault |-> fault]

Nested(made) == [j \in 1..Len(made) |-> [made[j] EXCEPT !.depth = @ + 1]]

\* this.rules[name], undefined when the rules object has no such key
RuleOf(rules, name) ==
    IF \E j \in 1..Len(rules) : rules[j].name = name
    THEN rules[CHOOSE j \in 1..Len(rules) : rules[j].name = name].val
    ELSE Undef

\* string_validate that reads its thresholds from this.rules
string_validate_descriptorRules(this, h, v) ==
    LET minLength == RuleOf(this.rules, "minLength")
        maxLength == RuleOf(this.rules, "maxLength")
    IN  IF typeof(v) # "string"
        THEN Outcome(Failure(SchemaViolation(this, v)), <<>>, <<>>)
        ELSE IF minLength # Undef /\ length(h, v) < minLength.n
        THEN Outcome(Failure(RuleViolation(this, "minLength", v)), <<>>, <<>>)
        ELSE IF maxLength # Undef /\ length(h, v) > maxLength.n
        THEN Outcome(Failure(RuleViolation(this, "maxLength", v)), <<>>, <<>>)
        ELSE Outcome(Success(v), <<>>, <<>>)

string_validate(this, h, v) ==
    LET minLength == this.closedRules.minLength
        maxLength == this.closedRules.maxLength
    IN  IF typeof(v) # "string"
        THEN Outcome(Failure(SchemaViolation(this, v)), <<>>, <<>>)
        ELSE IF minLength # Undef /\ length(h, v) < minLength.n
        THEN Outcome(Failure(RuleViolation(this, "minLength", v)), <<>>, <<>>)
        ELSE IF maxLength # Undef /\ length(h, v) > maxLength.n
        THEN Outcome(Failure(RuleViolation(this, "maxLength", v)), <<>>, <<>>)
        ELSE Outcome(Success(v), <<>>, <<>>)

\* number that checks max before min
number_validate_maxFirst(this, h, v) ==
    LET min == this.closedRules.min
        max == this.closedRules.max
    IN  IF typeof(v) # "number" \/ ~isFinite(v)
        THEN Outcome(Failure(SchemaViolation(this, v)), <<>>, <<>>)
        ELSE IF max # Undef /\ v.n > max.n
        THEN Outcome(Failure(RuleViolation(this, "max", v)), <<>>, <<>>)
        ELSE IF min # Undef /\ v.n < min.n
        THEN Outcome(Failure(RuleViolation(this, "min", v)), <<>>, <<>>)
        ELSE Outcome(Success(v), <<>>, <<>>)

number_validate(this, h, v) ==
    LET min == this.closedRules.min
        max == this.closedRules.max
    IN  IF typeof(v) # "number" \/ ~isFinite(v)
        THEN Outcome(Failure(SchemaViolation(this, v)), <<>>, <<>>)
        ELSE IF min # Undef /\ v.n < min.n
        THEN Outcome(Failure(RuleViolation(this, "min", v)), <<>>, <<>>)
        ELSE IF max # Undef /\ v.n > max.n
        THEN Outcome(Failure(RuleViolation(this, "max", v)), <<>>, <<>>)
        ELSE Outcome(Success(v), <<>>, <<>>)

boolean_validate(this, h, v) ==
    IF typeof(v) # "boolean"
    THEN Outcome(Failure(SchemaViolation(this, v)), <<>>, <<>>)
    ELSE Outcome(Success(v), <<>>, <<>>)

\* constant that compares with Object.is
constant_validate_sameValue(this, h, v) ==
    IF v # this.value
    THEN Outcome(Failure(SchemaViolation(this, v)), <<>>, <<>>)
    ELSE Outcome(Success(this.value), <<>>, <<>>)

\* returns { value: value }: the literal the validator was built with
constant_validate(this, h, v) ==
    IF ~StrictEquals(v, this.value)
    THEN Outcome(Failure(SchemaViolation(this, v)), <<>>, <<>>)
    ELSE Outcome(Success(this.value), <<>>, <<>>)

null_validate(this, h, v) ==
    IF ~StrictEquals(v, Null)
    THEN Outcome(Failure(SchemaViolation(this, v)), <<>>, <<>>)
    ELSE Outcome(Success(v), <<>>, <<>>)

undefined_validate(this, h, v) ==
    IF ~StrictEquals(v, Undef)
    THEN Outcome(Failure(SchemaViolation(this, v)), <<>>, <<>>)
    ELSE Outcome(Success(v), <<>>, <<>>)

(***************************************************************************)
(* Strings as the regular expression and the date parser read them:        *)
(* characters are numbered from 1, and the character past the end is "".   *)
(***************************************************************************)
charAt(t, i) == IF i >= 1 /\ i <= Len(t) THEN SubSeq(t, i, i) ELSE ""

\* \d
Digit == {"0", "1", "2", "3", "4", "5", "6", "7", "8", "9"}

\* \d{n} at position i
digits(t, i, n) == \A j \in i..(i + n - 1) : charAt(t, j) \in Digit

DigitValue(c) == CHOOSE d \in 0..9 : ToString(d) = c

\* the number written by the two digits at i
TwoDigits(t, i) == 10 * DigitValue(charAt(t, i)) + DigitValue(charAt(t, i + 1))

\* (?:Z|[+-]\d{2}:?\d{2})$ at position i
TimeZoneAt(t, i) ==
    \/ charAt(t, i) = "Z" /\ Len(t) = i
    \/ /\ charAt(t, i) \in {"+", "-"}
       /\ digits(t, i + 1, 2)
       /\ \/ charAt(t, i + 3) = ":" /\ digits(t, i + 4, 2) /\ Len(t) = i + 5
          \/ digits(t, i + 3, 2) /\ Len(t) = i + 4

\* the positions at which (?:[.]\d+)? can end when it starts after position i
FractionEnds(t, i) ==
    {i} \cup {e \in (i + 2)..Len(t) :
                 charAt(t, i + 1) = "." /\ digits(t, i + 2, e - i - 1)}

\* iso8601Regex.test(input)
iso8601Regex_test(t) ==
    /\ digits(t, 1, 4)
    /\ charAt(t, 5) = "-"
    /\ digits(t, 6, 2)
    /\ charAt(t, 8) = "-"
    /\ digits(t, 9, 2)
    /\ charAt(t, 11) = "T"
    /\ digits(t, 12, 2)
    /\ charAt(t, 14) = ":"
    /\ digits(t, 15, 2)
    /\ charAt(t, 17) = ":"
    /\ digits(t, 18, 2)
    /\ \E e \in FractionEnds(t, 19) : TimeZoneAt(t, e + 1)

(***************************************************************************)
(* new Date(input) of the host, for the date-time string format of         *)
(* ECMAScript, YYYY[-MM[-DD]] and YYYY-MM-DDTHH:mm[:ss[.s+]] with an       *)
(* optional Z or offset: the date is valid when the month is 01..12, the   *)
(* day 01..31 (the day is not checked against the month), and the time     *)
(* 00:00:00..23:59:59 or 24:00:00 exactly.  Every other string is an       *)
(* invalid date here.  The digits of an offset are not range-checked.      *)
(***************************************************************************)
MonthAt(t, i) == digits(t, i, 2) /\ TwoDigits(t, i) \in 1..12

\* a day checked against the length of its month (February taken as 28)
DayAt_calendar(t, i) ==
    /\ digits(t, i, 2)
    /\ TwoDigits(t, i) >= 1
    /\ TwoDigits(t, i) <= (CASE TwoDigits(t, i - 3) = 2 -> 28
                             [] TwoDigits(t, i - 3) \in {4, 6, 9, 11} -> 30
                             [] OTHER -> 31)

DayAt(t, i) == digits(t, i, 2) /\ TwoDigits(t, i) \in 1..31

\* the fraction digits after position i, up to e, are all 0
ZeroFraction(t, i, e) == \A j \in (i + 2)..e : charAt(t, j) = "0"

TimeAt(t, i) ==
    /\ charAt(t, i) = "T"
    /\ digits(t, i + 1, 2)
    /\ charAt(t, i + 3) = ":"
    /\ digits(t, i + 4, 2)
    /\ LET hour == TwoDigits(t, i + 1)
           minute == TwoDigits(t, i + 4)
           seconds == charAt(t, i + 6) = ":" /\ digits(t, i + 7, 2)
           second == IF seconds THEN TwoDigits(t, i + 7) ELSE 0
           last == IF seconds THEN i + 8 ELSE i + 5
           ends == IF seconds THEN FractionEnds(t, last) ELSE {last}
       IN  \E e \in ends :
               /\ Len(t) = e \/ TimeZoneAt(t, e + 1)
               /\ \/ hour <= 23 /\ minute <= 59 /\ second <= 59
                  \/ /\ hour = 24
                     /\ minute = 0
                     /\ second = 0
                     /\ ZeroFraction(t, last, e)

\* !Number.isNaN(new Date(input).getTime())
DateIsValid(t) ==
    /\ digits(t, 1, 4)
    /\ \/ Len(t) = 4
       \/ Len(t) = 7 /\ charAt(t, 5) = "-" /\ MonthAt(t, 6)
       \/ /\ Len(t) >= 10
          /\ charAt(t, 5) = "-"
          /\ MonthAt(t, 6)
          /\ charAt(t, 8) = "-"
          /\ DayAt(t, 9)
          /\ Len(t) = 10 \/ TimeAt(t, 11)

\* iso8601 that leaves the decision to the host's date parser
iso8601_validate_hostOnly(this, h, v) ==
    IF typeof(v) # "string"
    THEN Outcome(Failure(SchemaViolation(this, v)), <<>>, <<>>)
    ELSE IF ~DateIsValid(v.s)
    THEN Outcome(Failure(SchemaViolation(this, v)), <<>>, <<>>)
    ELSE Outcome(Success(v), <<>>, <<>>)

iso8601_validate(this, h, v) ==
    IF typeof(v) # "string" \/ ~iso8601Regex_test(v.s)
    THEN Outcome(Failure(SchemaViolation(this, v)), <<>>, <<>>)
    ELSE IF ~DateIsValid(v.s)
    THEN Outcome(Failure(SchemaViolation(this, v)), <<>>, <<>>)
    ELSE Outcome(Success(v), <<>>, <<>>)

custom_validate(this, h, v) ==
    IF this.throws # NoThrow
    THEN Throws(this.throws, <<>>, <<>>)
    ELSE Outcome(this.returns, <<>>, <<>>)

RECURSIVE unstable_validate(_, _, _)
RECURSIVE array_items(_, _, _, _)
RECURSIVE object_properties(_, _, _, _)
RECURSIVE or_alternatives(_, _, _, _)

\* array_items without the early return: every element is examined and the
\* last failing one is reported
RECURSIVE array_items_noEarlyReturn(_, _, _, _)
array_items_noEarlyReturn(this, h, v, i) ==
    IF ~(i < length(h, v))
    THEN Outcome(Success(v), <<>>, <<>>)
    ELSE LET r == unstable_validate(this.validators[1], h, index(h, v, i))
             rest == array_items_noEarlyReturn(this, h, v, i + 1)
         IN  IF rest.res.error = Undef /\ r.res.error # Undef
             THEN Outcome(Failure(ArrayIndexErrorNode(v, i, r.res.error)),
                          r.calls \o rest.calls, r.writes \o rest.writes)
             ELSE Outcome(rest.res, r.calls \o rest.calls,
                          r.writes \o rest.writes)

\* array_items that stops after the first element
array_items_firstOnly(this, h, v, i) ==
    IF ~(i < length(h, v))
    THEN Outcome(Success(v), <<>>, <<>>)
    ELSE LET r == unstable_validate(this.validators[1], h, index(h, v, i))
         IN  IF r.fault # NoThrow
             THEN Throws(r.fault, r.calls, r.writes)
             ELSE IF r.res.error # Undef
             THEN Outcome(Failure(ArrayIndexErrorNode(v, i, r.res.error)),
                          r.calls, r.writes)
             ELSE Outcome(Success(v), r.calls, r.writes)

\* for (let i = 0; i < input.length; i++) of array
array_items(this, h, v, i) ==
    IF ~(i < length(h, v))
    THEN Outcome(Success(v), <<>>, <<>>)
    ELSE LET r == unstable_validate(this.validators[1], h, index(h, v, i))
         IN  IF r.fault # NoThrow
             THEN Throws(r.fault, r.calls, r.writes)
             ELSE IF r.res.error # Undef
             THEN Outcome(Failure(ArrayIndexErrorNode(v, i, r.res.error)),
                          r.calls, r.writes)
             ELSE LET rest == array_items(this, h, v, i + 1)
                  IN  [rest EXCEPT !.calls = r.calls \o rest.calls,
                                   !.writes = r.writes \o rest.writes]

\* array_validate that takes the elements out of the input as it goes
\* (input.shift()): after the call the array has lost its first element
array_validate_consuming(this, h, v) ==
    LET minLength == this.closedRules.minLength
        o == IF ~isArray(v)
             THEN Outcome(Failure(SchemaViolation(this, v)), <<>>, <<>>)
             ELSE IF minLength # Undef /\ length(h, v) < minLength.n
             THEN Outcome(Failure(RuleViolation(this, "minLength", v)), <<>>, <<>>)
             ELSE IF ~this.hasItem
             THEN Outcome(Success(v), <<>>, <<>>)
             ELSE array_items(this, h, v, 0)
    IN  IF isArray(v) /\ length(h, v) > 0
        THEN [o EXCEPT !.writes =
                 @ \o <<[addr |-> v.n,
                         cell |-> [h[v.n] EXCEPT !.elems = Tail(@)]]>>]
        ELSE o

\* array_validate that examines the elements before the length
array_validate_itemsFirst(this, h, v) ==
    LET minLength == this.closedRules.minLength
        items == IF this.hasItem
                 THEN array_items(this, h, v, 0)
                 ELSE Outcome(Success(v), <<>>, <<>>)
    IN  IF ~isArray(v)
        THEN Outcome(Failure(SchemaViolation(this, v)), <<>>, <<>>)
        ELSE IF items.res.error # Undef
        THEN items
        ELSE IF minLength # Undef /\ length(h, v) < minLength.n
        THEN Outcome(Failure(RuleViolation(this, "minLength", v)),
                     items.calls, items.writes)
        ELSE items

array_validate(this, h, v) ==
    LET minLength == this.closedRules.minLength
    IN  IF ~isArray(v)
        THEN Outcome(Failure(SchemaViolation(this, v)), <<>>, <<>>)
        ELSE IF minLength # Undef /\ length(h, v) < minLength.n
        THEN Outcome(Failure(RuleViolation(this, "minLength", v)), <<>>, <<>>)
        ELSE IF ~this.hasItem
        THEN Outcome(Success(v), <<>>, <<>>)
        ELSE array_items(this, h, v, 0)

\* object_properties without the early return: every declared property is
\* examined and the last failing one is reported
RECURSIVE object_properties_noEarlyReturn(_, _, _, _)
object_properties_noEarlyReturn(this, h, v, i) ==
    IF ~(i < Len(this.properties))
    THEN Outcome(Success(v), <<>>, <<>>)
    ELSE LET prop == this.properties[i + 1]
             r == unstable_validate(this.validators[i + 1], h,
                                    property(h, v, prop))
             rest == object_properties_noEarlyReturn(this, h, v, i + 1)
         IN  IF rest.res.error = Undef /\ r.res.error # Undef
             THEN Outcome(Failure(ObjectPropertyErrorNode(v, prop, r.res.error)),
                          r.calls \o rest.calls, r.writes \o rest.writes)
             ELSE Outcome(rest.res, r.calls \o rest.calls,
                          r.writes \o rest.writes)

\* for (let i = 0; i < numOfProperties; i++) of object
object_properties(this, h, v, i) ==
    IF ~(i < Len(this.properties))
    THEN Outcome(Success(v), <<>>, <<>>)
    ELSE LET prop == this.properties[i + 1]
             r == unstable_validate(this.validators[i + 1], h,
                                    property(h, v, prop))
         IN  IF r.fault # NoThrow
             THEN Throws(r.fault, r.calls, r.writes)
             ELSE IF r.res.error # Undef
             THEN Outcome(Failure(ObjectPropertyErrorNode(v, prop, r.res.error)),
                          r.calls, r.writes)
             ELSE LET rest == object_properties(this, h, v, i + 1)
                  IN  [rest EXCEPT !.calls = r.calls \o rest.calls,
                                   !.writes = r.writes \o rest.writes]

\* object_validate that removes from the input the properties that have no
\* declared validator
object_validate_stripping(this, h, v) ==
    IF typeof(v) # "object" \/ v = Null \/ isArray(v)
    THEN Outcome(Failure(SchemaViolation(this, v)), <<>>, <<>>)
    ELSE IF Len(this.properties) = 0
    THEN Outcome(Success(v), <<>>, <<>>)
    ELSE LET o == object_properties(this, h, v, 0)
             kept == SelectSeq(h[v.n].entries,
                               LAMBDA e : \E j \in 1..Len(this.properties) :
                                             this.properties[j] = e.key)
         IN  Outcome(o.res, o.calls,
                     o.writes \o <<[addr |-> v.n,
                                    cell |-> [h[v.n] EXCEPT !.entries = kept]]>>)

\* object_validate that rejects an input with a property that has no
\* declared validator
object_validate_strict(this, h, v) ==
    IF typeof(v) # "object" \/ v = Null \/ isArray(v)
    THEN Outcome(Failure(SchemaViolation(this, v)), <<>>, <<>>)
    ELSE IF \E j \in 1..Len(h[v.n].entries) :
                \A m \in 1..Len(this.properties) :
                    this.properties[m] # h[v.n].entries[j].key
    THEN Outcome(Failure(SchemaViolation(this, v)), <<>>, <<>>)
    ELSE IF Len(this.properties) = 0
    THEN Outcome(Success(v), <<>>, <<>>)
    ELSE object_properties(this, h, v, 0)

\* object_validate that accepts only the objects object literals make
object_validate_plainOnly(this, h, v) ==
    IF typeof(v) # "object" \/ v = Null \/ isArray(v) \/ v.k # "object"
    THEN Outcome(Failure(SchemaViolation(this, v)), <<>>, <<>>)
    ELSE IF Len(this.properties) = 0
    THEN Outcome(Success(v), <<>>, <<>>)
    ELSE object_properties(this, h, v, 0)

object_validate(this, h, v) ==
    IF typeof(v) # "object" \/ v = Null \/ isArray(v)
    THEN Outcome(Failure(SchemaViolation(this, v)), <<>>, <<>>)
    ELSE IF Len(this.properties) = 0
    THEN Outcome(Success(v), <<>>, <<>>)
    ELSE object_properties(this, h, v, 0)

\* or_alternatives that keeps the last alternative that succeeds instead
\* of returning at the first
RECURSIVE or_alternatives_lastSuccess(_, _, _, _)
or_alternatives_lastSuccess(this, h, v, i) ==
    IF ~(i < Len(this.validators))
    THEN Outcome(Failure(SchemaViolation(this, v)), <<>>, <<>>)
    ELSE LET r == unstable_validate(this.validators[i + 1], h, v)
             rest == or_alternatives_lastSuccess(this, h, v, i + 1)
         IN  IF rest.res.error # Undef /\ r.res.error = Undef
             THEN Outcome(Success(r.res.value), r.calls \o rest.calls,
                          r.writes \o rest.writes)
             ELSE Outcome(rest.res, r.calls \o rest.calls,
                          r.writes \o rest.writes)

\* or_alternatives that reports the failure of its last alternative
\* instead of its own schema violation
RECURSIVE or_alternatives_childError(_, _, _, _)
or_alternatives_childError(this, h, v, i) ==
    IF ~(i < Len(this.validators))
    THEN Outcome(Failure(SchemaViolation(this, v)), <<>>, <<>>)
    ELSE LET r == unstable_validate(this.validators[i + 1], h, v)
         IN  IF r.res.error = Undef
             THEN Outcome(Success(r.res.value), r.calls, r.writes)
             ELSE IF i + 1 = Len(this.validators)
             THEN Outcome(r.res, r.calls, r.writes)
             ELSE LET rest == or_alternatives_childError(this, h, v, i + 1)
                  IN  Outcome(rest.res, r.calls \o rest.calls,
                              r.writes \o rest.writes)

\* or_alternatives that catches whatever an alternative throws and goes on
\* to the next alternative
RECURSIVE or_alternatives_catchAll(_, _, _, _)
or_alternatives_catchAll(this, h, v, i) ==
    IF ~(i < Len(this.validators))
    THEN Outcome(Failure(SchemaViolation(this, v)), <<>>, <<>>)
    ELSE LET r == unstable_validate(this.validators[i + 1], h, v)
         IN  IF r.fault = NoThrow /\ r.res.error = Undef
             THEN Outcome(Success(r.res.value), r.calls, r.writes)
             ELSE LET rest == or_alternatives_catchAll(this, h, v, i + 1)
                  IN  [rest EXCEPT !.calls = r.calls \o rest.calls,
                                   !.writes = r.writes \o rest.writes]

\* for (let i = 0; i < numOfValidators; i++) of or, and the return after it
\* or_alternatives that takes a result for a success when it has a value
RECURSIVE or_alternatives_definedValue(_, _, _, _)
or_alternatives_definedValue(this, h, v, i) ==
    IF ~(i < Len(this.validators))
    THEN Outcome(Failure(SchemaViolation(this, v)), <<>>, <<>>)
    ELSE LET r == unstable_validate(this.validators[i + 1], h, v)
         IN  IF r.fault # NoThrow
             THEN Throws(r.fault, r.calls, r.writes)
             ELSE IF r.res.value # Undef
             THEN Outcome(Success(r.res.value), r.calls, r.writes)
             ELSE LET rest == or_alternatives_definedValue(this, h, v, i + 1)
                  IN  [rest EXCEPT !.calls = r.calls \o rest.calls,
                                   !.writes = r.writes \o rest.writes]

or_alternatives(this, h, v, i) ==
    IF ~(i < Len(this.validators))
    THEN Outcome(Failure(SchemaViolation(this, v)), <<>>, <<>>)
    ELSE LET r == unstable_validate(this.validators[i + 1], h, v)
         IN  IF r.fault # NoThrow
             THEN Throws(r.fault, r.calls, r.writes)
             ELSE IF r.res.error = Undef
             THEN Outcome(Success(r.res.value), r.calls, r.writes)
             ELSE LET rest == or_alternatives(this, h, v, i + 1)
                  IN  [rest EXCEPT !.calls = r.calls \o rest.calls,
                                   !.writes = r.writes \o rest.writes]

or_validate(this, h, v) == or_alternatives(this, h, v, 0)

\* validator.unstable_validate(input): the method of the object the factory
\* of this validator returned
unstable_validate(this, h, v) ==
    LET o == CASE this.kind = "string" -> string_validate(this, h, v)
               [] this.kind = "number" -> number_validate(this, h, v)
               [] this.kind = "boolean" -> boolean_validate(this, h, v)
               [] this.kind = "constant" -> constant_validate(this, h, v)
               [] this.kind = "null" -> null_validate(this, h, v)
               [] this.kind = "undefined" -> undefined_validate(this, h, v)
               [] this.kind = "iso8601" -> iso8601_validate(this, h, v)
               [] this.kind = "array" -> array_validate(this, h, v)
               [] this.kind = "object" -> object_validate(this, h, v)
               [] this.kind = "or" -> or_validate(this, h, v)
               [] OTHER -> custom_validate(this, h, v)
    IN  IF o.fault # NoThrow
        THEN Throws(o.fault, <<CallThrew(this, v, o.fault)>> \o Nested(o.calls),
                    o.writes)
        ELSE Outcome(o.res, <<Call(this, v, o.res)>> \o Nested(o.calls),
                     o.writes)

(***************************************************************************)
(* JSON.stringify.  An outcome [threw, defined, text]: threw when the call *)
(* throws a TypeError (a BigInt anywhere in the value), defined = FALSE    *)
(* when it returns undefined (for undefined itself), text the JSON text    *)
(* otherwise.                                                              *)
(***************************************************************************)
Json(text) == [threw |-> FALSE, defined |-> TRUE, text |-> text]
JsonUndefined == [threw |-> FALSE, defined |-> FALSE, text |-> ""]
JsonThrows == [threw |-> TRUE, defined |-> FALSE, text |-> ""]

Quote(t) == "\"" \o t \o "\""

RECURSIVE JSONstringify(_, _)
RECURSIVE stringifyElements(_, _, _)
RECURSIVE stringifyProperties(_, _, _, _, _)

\* the elements of an array from position j on, separated by commas; an
\* element that stringifies to undefined is written null
stringifyElements(h, v, j) ==
    IF j > Len(h[v.n].elems)
    THEN Json("")
    ELSE LET e == JSONstringify(h, h[v.n].elems[j])
             rest == stringifyElements(h, v, j + 1)
         IN  IF e.threw \/ rest.threw
             THEN JsonThrows
             ELSE Json((IF e.defined THEN e.text ELSE "null")
                           \o (IF j < Len(h[v.n].elems) THEN "," ELSE "")
                           \o rest.text)

\* the properties of an object named by keys from position j on; a property
\* whose value stringifies to undefined is left out
stringifyProperties(h, v, keys, j, first) ==
    IF j > Len(keys)
    THEN Json("")
    ELSE LET e == JSONstringify(h, property(h, v, keys[j]))
             rest == stringifyProperties(h, v, keys, j + 1,
                                         first /\ ~e.defined)
         IN  IF e.threw \/ rest.threw
             THEN JsonThrows
             ELSE IF ~e.defined
             THEN rest
             ELSE Json((IF first THEN "" ELSE ",")
                           \o Quote(keys[j]) \o ":" \o e.text \o rest.text)

JSONstringify(h, v) ==
    CASE v.k = "undefined" -> JsonUndefined
      [] v.k = "function" -> JsonUndefined
      [] v.k = "null" -> Json("null")
      [] v.k = "boolean" -> Json(String(v))
      [] v.k = "number" -> (IF isFinite(v) THEN Json(ToString(v.n))
                            ELSE Json("null"))
      [] v.k = "string" -> Json(Quote(v.s))
      [] v.k = "bigint" -> JsonThrows
      [] v.k = "array" ->
            (LET e == stringifyElements(h, v, 1)
             IN  IF e.threw THEN JsonThrows ELSE Json("[" \o e.text \o "]"))
      [] OTHER ->
            (LET e == stringifyProperties(h, v, ObjectKeys(h[v.n].entries),
                                          1, TRUE)
             IN  IF e.threw THEN JsonThrows ELSE Json("{" \o e.text \o "}"))

\* JSON.stringify(leafNode.context.schema)
RECURSIVE SchemaJSON(_)
RECURSIVE SchemaListJSON(_, _)
RECURSIVE SchemaPropertiesJSON(_, _)

SchemaListJSON(schemas, j) ==
    IF j > Len(schemas)
    THEN ""
    ELSE SchemaJSON(schemas[j]) \o (IF j < Len(schemas) THEN "," ELSE "")
             \o SchemaListJSON(schemas, j + 1)

SchemaPropertiesJSON(props, j) ==
    IF j > Len(props)
    THEN ""
    ELSE Quote(props[j].key) \o ":" \o SchemaJSON(props[j].val)
             \o (IF j < Len(props) THEN "," ELSE "")
             \o SchemaPropertiesJSON(props, j + 1)

SchemaJSON(schema) ==
    "{" \o Quote("type") \o ":" \o Quote(schema.type)
        \o (CASE schema.type = "constant" ->
                    "," \o Quote("value") \o ":" \o Quote(schema.value)
              [] schema.type = "array" ->
                    (IF Len(schema.item) = 0 THEN ""
                     ELSE "," \o Quote("item") \o ":" \o SchemaJSON(schema.item[1]))
              [] schema.type = "or" ->
                    "," \o Quote("item") \o ":[" \o SchemaListJSON(schema.item, 1)
                        \o "]"
              [] schema.type = "object" ->
                    "," \o Quote("properties") \o ":{"
                        \o SchemaPropertiesJSON(schema.properties, 1) \o "}"
              [] OTHER -> "")
        \o "}"

\* Object.keys(rules).filter((key) => rules[key] !== undefined)
DefinedRules(rules) == SelectSeq(rules, LAMBDA r : r.val # Undef)

\* JSON.stringify(leafNode.context.rules): the rules that are set, in the
\* order of the rules object
RECURSIVE RulesListJSON(_, _, _)
RulesListJSON(h, rules, j) ==
    IF j > Len(rules)
    THEN ""
    ELSE Quote(rules[j].name) \o ":" \o JSONstringify(h, rules[j].val).text
             \o (IF j < Len(rules) THEN "," ELSE "")
             \o RulesListJSON(h, rules, j + 1)

RulesJSON(h, rules) == "{" \o RulesListJSON(h, DefinedRules(rules), 1) \o "}"

(***************************************************************************)
(* The error formatter.                                                    *)
(***************************************************************************)
startsWith(t, c) == Len(t) > 0 /\ SubSeq(t, 1, 1) = c

IsLeaf(node) == node.type \in {"schema-violation", "rule-violation"}

RECURSIVE formatErrorPath(_)
formatErrorPath(node) ==
    CASE node.type \in {"schema-violation", "rule-violation"} -> ""
      [] node.type = "array-index" ->
            (LET rest == formatErrorPath(node.entry.node)
                 segment == "[" \o ToString(node.entry.index) \o "]"
             IN  IF rest = "" THEN segment
                 ELSE IF startsWith(rest, "[") THEN segment \o rest
                 ELSE segment \o "." \o rest)
      [] node.type = "object-property" ->
            (LET rest == formatErrorPath(node.entry.node)
             IN  IF rest = "" THEN node.entry.property
                 ELSE IF startsWith(rest, "[") THEN node.entry.property \o rest
                 ELSE node.entry.property \o "." \o rest)
      [] OTHER -> ""

\* while (currentPath.type !== "schema-violation" && ... !== "rule-violation")
RECURSIVE LeafOf(_)
LeafOf(node) == IF IsLeaf(node) THEN node ELSE LeafOf(node.entry.node)

\* formatError that prints the data of the node it is given instead of the
\* data of the leaf
formatError_rootData(h, node) ==
    LET pathString == formatErrorPath(node)
        leafNode == LeafOf(node)
        received == JSONstringify(h, node.data)
        message ==
            "Validation failed"
                \o (IF pathString # "" THEN " at " \o pathString ELSE "")
                \o (IF leafNode.type = "schema-violation"
                    THEN " due to schema mismatch;"
                    ELSE " due to rule violation: " \o leafNode.rule \o ";")
                \o " expected schema: " \o SchemaJSON(leafNode.context.schema)
                \o (IF Len(DefinedRules(leafNode.context.rules)) > 0
                    THEN " with rules: " \o RulesJSON(h, leafNode.context.rules)
                    ELSE "")
                \o "; received value: "
                \o (IF received.defined THEN received.text ELSE "undefined")
    IN  IF received.threw
        THEN [threw |-> TRUE, text |-> ""]
        ELSE [threw |-> FALSE, text |-> message]

\* formatError that prints the rules whether or not one of them is set
formatError_alwaysRules(h, node) ==
    LET pathString == formatErrorPath(node)
        leafNode == LeafOf(node)
        received == JSONstringify(h, leafNode.data)
        message ==
            "Validation failed"
                \o (IF pathString # "" THEN " at " \o pathString ELSE "")
                \o (IF leafNode.type = "schema-violation"
                    THEN " due to schema mismatch;"
                    ELSE " due to rule violation: " \o leafNode.rule \o ";")
                \o " expected schema: " \o SchemaJSON(leafNode.context.schema)
                \o " with rules: " \o RulesJSON(h, leafNode.context.rules)
                \o "; received value: "
                \o (IF received.defined THEN received.text ELSE "undefined")
    IN  IF received.threw
        THEN [threw |-> TRUE, text |-> ""]
        ELSE [threw |-> FALSE, text |-> message]

\* formatError(node): [threw, text]; threw when JSON.stringify of the
\* received value throws
formatError(h, node) ==
    LET pathString == formatErrorPath(node)
        leafNode == LeafOf(node)
        received == JSONstringify(h, leafNode.data)
        message ==
            "Validation failed"
                \o (IF pathString # "" THEN " at " \o pathString ELSE "")
                \o (IF leafNode.type = "schema-violation"
                    THEN " due to schema mismatch;"
                    ELSE " due to rule violation: " \o leafNode.rule \o ";")
                \o " expected schema: " \o SchemaJSON(leafNode.context.schema)
                \o (IF Len(DefinedRules(leafNode.context.rules)) > 0
                    THEN " with rules: " \o RulesJSON(h, leafNode.context.rules)
                    ELSE "")
                \o "; received value: "
                \o (IF received.defined THEN received.text ELSE "undefined")
    IN  IF received.threw
        THEN [threw |-> TRUE, text |-> ""]
        ELSE [threw |-> FALSE, text |-> message]

(***************************************************************************)
(* validate and the ValidationError it throws.  What it throws is nothing  *)
(* (NoThrow), what the validator threw, a ValidationError, or the          *)
(* TypeError that escapes from the constructor of ValidationError when     *)
(* formatError throws.                                                     *)
(***************************************************************************)
TypeError == [name |-> "TypeError", root |-> Undef, message |-> ""]

\* new ValidationError(node): super(formatError(node)); this.#root = node
ValidationError(h, node) ==
    LET m == formatError(h, node)
    IN  IF m.threw
        THEN TypeError
        ELSE [name |-> "ValidationError", root |-> node, message |-> m.text]

\* if (result.error !== undefined) throw new ValidationError(result.error):
\* what validate returns and throws, given the outcome r of the
\* unstable_validate call it made
validate_outcome(h, r) ==
    [res |-> r.res, calls |-> r.calls, writes |-> r.writes,
     thrown |-> IF r.fault # NoThrow
                THEN r.fault
                ELSE IF r.res.error # Undef
                THEN ValidationError(h, r.res.error)
                ELSE NoThrow]

\* validate(value, validator): const result = validator.unstable_validate(value)
validate(value, this, h) ==
    validate_outcome(h, unstable_validate(this, h, value))

(***************************************************************************)
(* The heap the program runs on.  A cell is [kind, elems, entries]: the    *)
(* elements of an array, or the [key, val] entries of an object in         *)
(* insertion order.                                                        *)
(* The first cells are all the arrays of at most MaxLen elements drawn     *)
(* from Elements; the others are the objects and the nested containers     *)
(* listed in Fixture, which name cells relative to the end of the arrays.  *)
(***************************************************************************)
ArrayCell(elems) == [kind |-> "array", elems |-> elems, entries |-> <<>>]
ObjectCell(entries) == [kind |-> "object", elems |-> <<>>, entries |-> entries]
Entry(key, val) == [key |-> key, val |-> val]

Elements == <<Str("a"), Num(1)>>

RECURSIVE ArraysOfLen(_)
ArraysOfLen(n) ==
    IF n = 0
    THEN << <<>> >>
    ELSE LET prev == ArraysOfLen(n - 1)
             k == Len(Elements)
         IN  [j \in 1..(Len(prev) * k) |->
                 Append(prev[((j - 1) \div k) + 1], Elements[((j - 1) % k) + 1])]

RECURSIVE ArraysUpTo(_)
ArraysUpTo(n) ==
    IF n = 0 THEN ArraysOfLen(0) ELSE ArraysUpTo(n - 1) \o ArraysOfLen(n)

GeneratedArrays == ArraysUpTo(MaxLen)

\* the address of the generated array with these elements
ArrayOf(elems) ==
    ArrRef(CHOOSE a \in 1..Len(GeneratedArrays) : GeneratedArrays[a] = elems)

\* the reference to the j-th cell of Fixture
ArrF(j) == ArrRef(Len(GeneratedArrays) + j)
ObjF(j) == ObjRef(Len(GeneratedArrays) + j)

Fixture ==
    << ObjectCell(<<>>),                                            \* 1  {}
       ObjectCell(<<Entry("a", Str("a"))>>),                        \* 2  {a:"a"}
       ObjectCell(<<Entry("a", Num(1))>>),                          \* 3  {a:1}
       ObjectCell(<<Entry("a", Str("a")), Entry("b", Num(1))>>),    \* 4  {a:"a",b:1}
       ObjectCell(<<Entry("a", Num(1)), Entry("b", Str("a"))>>),    \* 5  {a:1,b:"a"}
       ObjectCell(<<Entry("b", Num(1)), Entry("0", Str("a"))>>),    \* 6  {b:1,0:"a"}
       ObjectCell(<<Entry("b", Str("a")), Entry("0", Num(1))>>),    \* 7  {b:"a",0:1}
       ObjectCell(<<Entry("a", Undef), Entry("b", BigInt(1))>>),    \* 8  {a:undefined,b:1n}
       ObjectCell(<<Entry("a", ObjF(3))>>),                         \* 9  {a:{a:1}}
       ObjectCell(<<Entry("a", ObjF(9))>>),                         \* 10 {a:{a:{a:1}}}
       ArrayCell(<<ObjF(2), ObjF(3)>>),                             \* 11 [{a:"a"},{a:1}]
       ObjectCell(<<Entry("a", Str("a")),
                    Entry("b", ArrayOf(<<Str("a"), Num(1)>>))>>),   \* 12 {a:"a",b:["a",1]}
       ArrayCell(<<ArrayOf(<<Str("a")>>),
                   ArrayOf(<<Num(1), Str("a")>>)>>),                \* 13 [["a"],[1,"a"]]
       ObjectCell(<<Entry("a", ArrF(11))>>),                        \* 14 {a:[{a:"a"},{a:1}]}
       ArrayCell(<<Undef, BigInt(1), NegZero>>),                    \* 15 [undefined,1n,-0]
       ObjectCell(<<Entry("", ObjF(3))>>),                          \* 16 {"":{a:1}}
       ArrayCell(<<Undef, Undef>>) >>                               \* 17 [undefined,undefined]

InitialHeap ==
    [a \in 1..Len(GeneratedArrays) |-> ArrayCell(GeneratedArrays[a])] \o Fixture

Primitives ==
    {Undef, Null, Bool(TRUE), Num(0), NegZero, Num(1), Str(""), Str("a"),
     Str("abc"), BigInt(1)}

References ==
    {[k |-> InitialHeap[a].kind, n |-> a, s |-> ""] : a \in 1..Len(InitialHeap)}

\* the values handed to unstable_validate and validate
Inputs == Primitives \cup References

(***************************************************************************)
(* The validators the program builds: the factories applied to rules and   *)
(* to one another, nested at most MaxDepth deep.                           *)
(***************************************************************************)
MinLength(n) == [NoRules EXCEPT !.minLength = Num(n)]

\* the mocks of validate.test.ts
customValue == custom(Success(Str("validated value")))
customError ==
    custom(Failure(RuleViolation(string(MinLength(5)), "minLength", Str("short"))))

Leaves ==
    {string(NoRules), string(MinLength(2)), number(NoRules), boolean,
     constant(Num(0)), null_, undefined_, customValue, customError,
     array(<<>>, NoRules), array(<<>>, MinLength(2)),
     array(<<string(NoRules)>>, MinLength(2)), object(<<>>), or(<<>>)}

Wrap(c) ==
    {array(<<c>>, NoRules),
     object(<<Entry("a", c)>>),
     object(<<Entry("a", c), Entry("b", number(NoRules))>>),
     object(<<Entry("b", c), Entry("0", number(NoRules))>>),
     or(<<c, number(NoRules)>>),
     or(<<number(NoRules), c>>)}

RECURSIVE ValidatorsOfDepth(_)
ValidatorsOfDepth(d) ==
    IF d = 0
    THEN Leaves
    ELSE Leaves \cup UNION {Wrap(c) : c \in ValidatorsOfDepth(d - 1)}

\* validators whose declared property names include the empty string
EmptyNamed ==
    {object(<<Entry("", string(NoRules))>>),
     object(<<Entry("a", object(<<Entry("", string(NoRules))>>))>>),
     object(<<Entry("", object(<<Entry("a", string(NoRules))>>))>>),
     array(<<object(<<Entry("", string(NoRules))>>)>>, NoRules)}

\* validators that declare a property under a name every object inherits
InheritedNamed ==
    {object(<<Entry("toString", or(<<string(NoRules), undefined_>>))>>),
     object(<<Entry("a", string(NoRules)), Entry("constructor", undefined_)>>)}

\* constant(undefined) as alternative, item validator and property validator
UndefinedLiteral ==
    {or(<<constant(Undef), number(NoRules)>>),
     array(<<constant(Undef)>>, NoRules),
     object(<<Entry("a", constant(Undef))>>)}

Validators ==
    ValidatorsOfDepth(MaxDepth) \cup EmptyNamed \cup InheritedNamed
        \cup UndefinedLiteral

(***************************************************************************)
(* The state machine: the program calls unstable_validate or validate on a *)
(* validator and a value; the state records the call and its outcome until *)
(* the program has consumed it (Return).                                   *)
(***************************************************************************)
RECURSIVE ApplyWrites(_, _)
ApplyWrites(h, ws) ==
    IF ws = <<>>
    THEN h
    ELSE ApplyWrites([h EXCEPT ![Head(ws).addr] = Head(ws).cell], Tail(ws))

\* the tasks that call into the library, and a task that is not calling
Tasks == {1, 2}

IdleTask ==
    [validator |-> undefined_, input |-> Undef, stack |-> <<>>,
     status |-> "idle", res |-> Success(Undef)]

Init ==
    /\ heap = InitialHeap
    /\ op = "none"
    /\ validator = undefined_
    /\ input = Undef
    /\ result = Success(Undef)
    /\ calls = <<>>
    /\ thrown = NoThrow
    /\ tasks = [t \in Tasks |-> IdleTask]
    /\ locals = {}

\* result = V.unstable_validate(x)
UnstableValidate(V, x) ==
    LET o == unstable_validate(V, heap, x)
    IN  /\ op' = "unstable_validate"
        /\ validator' = V
        /\ input' = x
        /\ result' = o.res
        /\ calls' = o.calls
        /\ thrown' = o.fault
        /\ heap' = ApplyWrites(heap, o.writes)
        /\ UNCHANGED <<tasks, locals>>

\* validate(x, V)
Validate(V, x) ==
    LET o == validate(x, V, heap)
    IN  /\ op' = "validate"
        /\ validator' = V
        /\ input' = x
        /\ result' = o.res
        /\ calls' = o.calls
        /\ thrown' = o.thrown
        /\ heap' = ApplyWrites(heap, o.writes)
        /\ UNCHANGED <<tasks, locals>>

\* the caller drops the result or the caught error; the heap stays
Return ==
    /\ op # "none"
    /\ op' = "none"
    /\ validator' = undefined_
    /\ input' = Undef
    /\ result' = Success(Undef)
    /\ calls' = <<>>
    /\ thrown' = NoThrow
    /\ UNCHANGED <<heap, tasks, locals>>

\* the program is between calls
Idle == op = "none"

Next ==
    \/ Idle /\ \E V \in Validators, x \in Inputs : UnstableValidate(V, x)
    \/ Idle /\ \E V \in Validators, x \in Inputs : Validate(V, x)
    \/ Return

Spec == Init /\ [][Next]_vars

(***************************************************************************)
(* The program invoking the same validator on the same input again and     *)
(* again.  calls keeps the invocations of all the repetitions.             *)
(***************************************************************************)
RepeatedValidators == ValidatorsOfDepth(MaxDepth - 1)

\* the invocations made by the program itself
TopCalls == {p \in 1..Len(calls) : calls[p].depth = 0}

\* result = validator.unstable_validate(input), once more
Again ==
    /\ op = "unstable_validate"
    /\ Cardinality(TopCalls) < MaxRepeat
    /\ LET o == unstable_validate(validator, heap, input)
       IN  /\ result' = o.res
           /\ calls' = calls \o o.calls
           /\ thrown' = o.fault
           /\ heap' = ApplyWrites(heap, o.writes)
    /\ UNCHANGED <<op, validator, input, tasks, locals>>

NextAgain ==
    \/ Idle /\ \E V \in RepeatedValidators, x \in Inputs : UnstableValidate(V, x)
    \/ Again
    \/ Return

SpecAgain == Init /\ [][NextAgain]_vars

(***************************************************************************)
(* The program with caller-supplied validators that throw: the             *)
(* throwingValidator of or.test.ts (a plain Error) and a validator of the  *)
(* throwing style that signals its own failure with an exception, placed   *)
(* as alternative, item and property validators.                           *)
(***************************************************************************)
throwingValidator == throwing(Error("Custom error"))
rejectingByThrow ==
    throwing([name |-> "ValidationError", root |-> Undef,
              message |-> "Validation failed"])

Throwing == {throwingValidator, rejectingByThrow}

WrapThrowing(c) ==
    {or(<<c, string(NoRules)>>),
     or(<<number(NoRules), c>>),
     or(<<c>>),
     array(<<c>>, NoRules),
     object(<<Entry("a", c)>>),
     object(<<Entry("a", string(NoRules)), Entry("b", c)>>)}

FaultyValidators ==
    LET inner == UNION {WrapThrowing(c) : c \in Throwing}
    IN  Throwing \cup inner
            \cup UNION {WrapThrowing(c) : c \in inner}

NextFault ==
    \/ Idle /\ \E V \in FaultyValidators, x \in Inputs : UnstableValidate(V, x)
    \/ Idle /\ \E V \in FaultyValidators, x \in Inputs : Validate(V, x)
    \/ Return

SpecFault == Init /\ [][NextFault]_vars

(***************************************************************************)
(* The program with two tasks inside unstable_validate of one validator    *)
(* instance at the same time.  A task runs the method statement by         *)
(* statement: its stack holds one frame per invocation in progress,        *)
(* [validator, input, pc, ret, prop], where pc is "start" (before the      *)
(* base checks), "loop" (at the loop test), "wait" (inside the call of a   *)
(* child) or "resume" (the child has returned ret), and prop is the local  *)
(* const property of object.  The loop counter i of an invocation is kept  *)
(* in locals under the key of its activation.  The variables the factory   *)
(* closes over (rules, value, validator, properties, _validators) are      *)
(* fields of the validator, read and never written.                        *)
(***************************************************************************)
Frame(V, v) ==
    [validator |-> V, input |-> v, pc |-> "start", ret |-> Success(Undef),
     prop |-> ""]

\* a loop counter declared in the closure of the factory: one per validator
\* instance, shared by all the invocations of that instance
Activation_perInstance(t, d, V) == [task |-> 0, depth |-> 0, instance |-> V]

\* for (let i = 0; ...): one i per invocation, that is per task and stack
\* depth
Activation(t, d, V) == [task |-> t, depth |-> d, instance |-> V]

ReadLocal(ls, key) == (CHOOSE e \in ls : e.key = key).val

WriteLocal(ls, key, val) ==
    {e \in ls : e.key # key} \cup {[key |-> key, val |-> val]}

\* return r from the invocation on top of the stack of task
Finish(task, r) ==
    LET rest == SubSeq(task.stack, 1, Len(task.stack) - 1)
    IN  IF rest = <<>>
        THEN [task EXCEPT !.stack = <<>>, !.status = "done", !.res = r]
        ELSE [task EXCEPT !.stack = [rest EXCEPT ![Len(rest)].pc = "resume",
                                                 ![Len(rest)].ret = r]]

\* call V.unstable_validate(v) from the invocation on top of the stack
Invoke(task, V, v, prop) ==
    LET d == Len(task.stack)
    IN  [task EXCEPT !.stack = Append([task.stack EXCEPT ![d].pc = "wait",
                                                          ![d].prop = prop],
                                      Frame(V, v))]

Goto(task, pc) == [task EXCEPT !.stack[Len(task.stack)].pc = pc]

Moved(task, ls) == [task |-> task, locals |-> ls]

\* array.unstable_validate whose loop has no i++
array_step_noIncrement(task, ls, h, key) ==
    LET f == task.stack[Len(task.stack)]
        this == f.validator
        v == f.input
        minLength == this.closedRules.minLength
    IN  CASE f.pc = "start" ->
                (IF ~isArray(v)
                 THEN Moved(Finish(task, Failure(SchemaViolation(this, v))), ls)
                 ELSE IF minLength # Undef /\ length(h, v) < minLength.n
                 THEN Moved(Finish(task,
                                   Failure(RuleViolation(this, "minLength", v))),
                            ls)
                 ELSE IF ~this.hasItem
                 THEN Moved(Finish(task, Success(v)), ls)
                 ELSE Moved(Goto(task, "loop"), WriteLocal(ls, key, 0)))
          [] f.pc = "loop" ->
                (LET i == ReadLocal(ls, key)
                 IN  IF ~(i < length(h, v))
                     THEN Moved(Finish(task, Success(v)), ls)
                     ELSE Moved(Invoke(task, this.validators[1],
                                       index(h, v, i), ""), ls))
          [] OTHER ->
                (LET i == ReadLocal(ls, key)
                 IN  IF f.ret.error # Undef
                     THEN Moved(Finish(task,
                                       Failure(ArrayIndexErrorNode(v, i,
                                                                   f.ret.error))),
                                ls)
                     ELSE Moved(Goto(task, "loop"), ls))

\* one statement of array.unstable_validate
array_step(task, ls, h, key) ==
    LET f == task.stack[Len(task.stack)]
        this == f.validator
        v == f.input
        minLength == this.closedRules.minLength
    IN  CASE f.pc = "start" ->
                (IF ~isArray(v)
                 THEN Moved(Finish(task, Failure(SchemaViolation(this, v))), ls)
                 ELSE IF minLength # Undef /\ length(h, v) < minLength.n
                 THEN Moved(Finish(task,
                                   Failure(RuleViolation(this, "minLength", v))),
                            ls)
                 ELSE IF ~this.hasItem
                 THEN Moved(Finish(task, Success(v)), ls)
                 ELSE Moved(Goto(task, "loop"), WriteLocal(ls, key, 0)))
          [] f.pc = "loop" ->
                (LET i == ReadLocal(ls, key)
                 IN  IF ~(i < length(h, v))
                     THEN Moved(Finish(task, Success(v)), ls)
                     ELSE Moved(Invoke(task, this.validators[1],
                                       index(h, v, i), ""), ls))
          [] OTHER ->
                (LET i == ReadLocal(ls, key)
                 IN  IF f.ret.error # Undef
                     THEN Moved(Finish(task,
                                       Failure(ArrayIndexErrorNode(v, i,
                                                                   f.ret.error))),
                                ls)
                     ELSE Moved(Goto(task, "loop"), WriteLocal(ls, key, i + 1)))

\* one statement of object.unstable_validate
object_step(task, ls, h, key) ==
    LET f == task.stack[Len(task.stack)]
        this == f.validator
        v == f.input
    IN  CASE f.pc = "start" ->
                (IF typeof(v) # "object" \/ v = Null \/ isArray(v)
                 THEN Moved(Finish(task, Failure(SchemaViolation(this, v))), ls)
                 ELSE IF Len(this.properties) = 0
                 THEN Moved(Finish(task, Success(v)), ls)
                 ELSE Moved(Goto(task, "loop"), WriteLocal(ls, key, 0)))
          [] f.pc = "loop" ->
                (LET i == ReadLocal(ls, key)
                 IN  IF ~(i < Len(this.properties))
                     THEN Moved(Finish(task, Success(v)), ls)
                     ELSE Moved(Invoke(task, this.validators[i + 1],
                                       property(h, v, this.properties[i + 1]),
                                       this.properties[i + 1]), ls))
          [] OTHER ->
                (LET i == ReadLocal(ls, key)
                 IN  IF f.ret.error # Undef
                     THEN Moved(Finish(task,
                                       Failure(ObjectPropertyErrorNode(
                                                   v, f.prop, f.ret.error))),
                                ls)
                     ELSE Moved(Goto(task, "loop"), WriteLocal(ls, key, i + 1)))

\* one statement of or.unstable_validate
or_step(task, ls, h, key) ==
    LET f == task.stack[Len(task.stack)]
        this == f.validator
        v == f.input
    IN  CASE f.pc = "start" ->
                Moved(Goto(task, "loop"), WriteLocal(ls, key, 0))
          [] f.pc = "loop" ->
                (LET i == ReadLocal(ls, key)
                 IN  IF ~(i < Len(this.validators))
                     THEN Moved(Finish(task, Failure(SchemaViolation(this, v))),
                                ls)
                     ELSE Moved(Invoke(task, this.validators[i + 1], v, ""), ls))
          [] OTHER ->
                (LET i == ReadLocal(ls, key)
                 IN  IF f.ret.error = Undef
                     THEN Moved(Finish(task, Success(f.ret.value)), ls)
                     ELSE Moved(Goto(task, "loop"), WriteLocal(ls, key, i + 1)))

\* unstable_validate of a validator that calls no other: it has no loop
leaf_step(task, ls, h) ==
    LET f == task.stack[Len(task.stack)]
    IN  Moved(Finish(task, unstable_validate(f.validator, h, f.input).res), ls)

\* the validators and the inputs of the tasks
SharedValidators ==
    {array(<<string(NoRules)>>, NoRules),
     object(<<Entry("a", string(NoRules)), Entry("b", number(NoRules))>>),
     or(<<string(NoRules), array(<<number(NoRules)>>, NoRules)>>),
     array(<<object(<<Entry("a", string(NoRules))>>)>>, NoRules),
     array(<<array(<<string(NoRules)>>, NoRules)>>, NoRules),
     object(<<Entry("a", string(NoRules)),
              Entry("b", array(<<string(NoRules)>>, MinLength(2)))>>)}

TaskInputs ==
    {Str("a"), ArrayOf(<<Str("a"), Num(1)>>), ArrayOf(<<Num(1), Str("a")>>),
     ArrayOf(<<Num(1)>>), ObjF(4), ObjF(5), ArrF(11), ObjF(12), ArrF(13)}

\* the tasks call V.unstable_validate, each with its own input
StartTasks(V, xs) ==
    /\ op' = "concurrent"
    /\ tasks' = [t \in Tasks |->
                    [validator |-> V, input |-> xs[t],
                     stack |-> <<Frame(V, xs[t])>>, status |-> "running",
                     res |-> Success(Undef)]]
    /\ locals' = {}
    /\ UNCHANGED <<heap, validator, input, result, calls, thrown>>

\* task t executes its next statement
Step(t) ==
    /\ op = "concurrent"
    /\ tasks[t].status = "running"
    /\ LET task == tasks[t]
           d == Len(task.stack)
           f == task.stack[d]
           key == Activation(t, d, f.validator)
           moved == CASE f.validator.kind = "array" ->
                            array_step(task, locals, heap, key)
                      [] f.validator.kind = "object" ->
                            object_step(task, locals, heap, key)
                      [] f.validator.kind = "or" ->
                            or_step(task, locals, heap, key)
                      [] OTHER -> leaf_step(task, locals, heap)
       IN  /\ tasks' = [tasks EXCEPT ![t] = moved.task]
           /\ locals' = moved.locals
    /\ UNCHANGED <<heap, op, validator, input, result, calls, thrown>>

\* both calls have returned and the tasks drop their results
Join ==
    /\ op = "concurrent"
    /\ \A t \in Tasks : tasks[t].status = "done"
    /\ op' = "none"
    /\ tasks' = [t \in Tasks |-> IdleTask]
    /\ locals' = {}
    /\ UNCHANGED <<heap, validator, input, result, calls, thrown>>

NextConcurrent ==
    \/ Idle /\ \E V \in SharedValidators, xs \in [Tasks -> TaskInputs] :
                   StartTasks(V, xs)
    \/ \E t \in Tasks : Step(t)
    \/ Join

SpecConcurrent == Init /\ [][NextConcurrent]_vars

\* the same program, each task going on to its next statement as long as
\* it has one: a call that has started runs until it returns
SpecTerminating ==
    Init /\ [][NextConcurrent]_vars /\ \A t \in Tasks : WF_vars(Step(t))

(***************************************************************************)
(* Reading the recorded invocations.                                       *)
(***************************************************************************)
Called == op # "none"

\* the positions of the invocations made directly by invocation p
ChildPositions(p) ==
    {q \in (p + 1)..Len(calls) :
        /\ calls[q].depth = calls[p].depth + 1
        /\ \A m \in (p + 1)..(q - 1) : calls[m].depth > calls[p].depth}

\* the same, in the order they were made
ChildSeq(p) ==
    LET S == ChildPositions(p)
    IN  [j \in 1..Cardinality(S) |->
            CHOOSE q \in S : Cardinality({m \in S : m < q}) = j - 1]

\* a validator built from the library's factories alone
RECURSIVE IsLibrary(_)
IsLibrary(V) ==
    /\ V.kind # "custom"
    /\ \A j \in 1..Len(V.validators) : IsLibrary(V.validators[j])

RuleValue(V, name) ==
    LET S == {j \in 1..Len(V.rules) : V.rules[j].name = name}
    IN  IF S = {} THEN Undef ELSE V.rules[CHOOSE j \in S : TRUE].val

\* the validator object() holds for the declared key k
ValidatorFor(V, k) ==
    V.validators[CHOOSE j \in 1..Len(V.properties) : V.properties[j] = k]

EndsWith(t, suffix) ==
    /\ Len(suffix) <= Len(t)
    /\ SubSeq(t, Len(t) - Len(suffix) + 1, Len(t)) = suffix

(***************************************************************************)
(* C1.  An array validator with an item validator, applied to an array     *)
(* that passes the base and minLength checks, invokes the item validator   *)
(* on the elements in ascending index order and on no element after the    *)
(* first failing one; the result is then the array-index node with that    *)
(* index, that element's error as child and the input array as data.       *)
(***************************************************************************)
C1_Case(p) ==
    /\ calls[p].validator.kind = "array"
    /\ calls[p].validator.hasItem
    /\ isArray(calls[p].input)
    /\ \/ RuleValue(calls[p].validator, "minLength") = Undef
       \/ length(heap, calls[p].input)
              >= RuleValue(calls[p].validator, "minLength").n

C1_ArrayFirstFailingIndex ==
    \A p \in 1..Len(calls) :
        C1_Case(p) =>
            LET c == calls[p]
                kids == ChildSeq(p)
                m == Len(kids)
            IN  /\ m <= length(heap, c.input)
                /\ \A j \in 1..m :
                      /\ calls[kids[j]].validator = c.validator.validators[1]
                      /\ calls[kids[j]].input = index(heap, c.input, j - 1)
                /\ \A j \in 1..(m - 1) : calls[kids[j]].res.error = Undef
                /\ IF m > 0 /\ calls[kids[m]].res.error # Undef
                   THEN c.res = Failure([type |-> "array-index",
                                         data |-> c.input,
                                         entry |-> [index |-> m - 1,
                                                    node |-> calls[kids[m]].res.error]])
                   ELSE m = length(heap, c.input) /\ c.res = Success(c.input)

\* an array of two elements whose first element fails: the second is not
\* examined
C1_Witness ==
    /\ Called
    /\ C1_Case(1)
    /\ length(heap, input) = 2
    /\ Len(ChildSeq(1)) = 1
    /\ result.error # Undef
    /\ result.error.type = "array-index"
    /\ result.error.entry.index = 0

(***************************************************************************)
(* C2.  As stated: an object validator checks the declared properties in   *)
(* declaration order, stops at the first failing one and returns the       *)
(* object-property node naming it.                                         *)
(***************************************************************************)
C2_Case(p) ==
    /\ calls[p].validator.kind = "object"
    /\ calls[p].input.k = "object"

C2_ChecksInOrder(p, order) ==
    LET c == calls[p]
        kids == ChildSeq(p)
        m == Len(kids)
    IN  /\ m <= Len(order)
        /\ \A j \in 1..m :
              /\ calls[kids[j]].validator = ValidatorFor(c.validator, order[j])
              /\ calls[kids[j]].input = property(heap, c.input, order[j])
        /\ \A j \in 1..(m - 1) : calls[kids[j]].res.error = Undef
        /\ IF m > 0 /\ calls[kids[m]].res.error # Undef
           THEN c.res = Failure([type |-> "object-property",
                                 data |-> c.input,
                                 entry |-> [property |-> order[m],
                                            node |-> calls[kids[m]].res.error]])
           ELSE m = Len(order) /\ c.res = Success(c.input)

C2_DeclarationOrder ==
    \A p \in 1..Len(calls) :
        C2_Case(p) => C2_ChecksInOrder(p, calls[p].validator.declared)

(***************************************************************************)
(* C2, amended.  The declared properties are checked in the order of       *)
(* Object.keys of the validator map: the integer-like keys in ascending    *)
(* numeric order, then the other keys in declaration order.                *)
(***************************************************************************)
C2_ObjectKeysOrder ==
    \A p \in 1..Len(calls) :
        C2_Case(p) =>
            /\ calls[p].validator.properties
                   = IndexKeysFrom({calls[p].validator.declared[j] :
                                       j \in 1..Len(calls[p].validator.declared)}, 0)
                         \o SelectSeq(calls[p].validator.declared, IsOtherKey)
            /\ C2_ChecksInOrder(p, calls[p].validator.properties)

\* { b: ..., 0: ... } declared in that order, both properties failing: the
\* property reported is "0" and "b" is not examined
C2_Witness ==
    /\ Called
    /\ C2_Case(1)
    /\ validator.declared = <<"b", "0">>
    /\ Len(ChildSeq(1)) = 1
    /\ result.error # Undef
    /\ result.error.type = "object-property"
    /\ result.error.entry.property = "0"
    /\ unstable_validate(ValidatorFor(validator, "b"), heap,
                         property(heap, input, "b")).res.error # Undef

(***************************************************************************)
(* C3.  A union tries its alternatives in the given order, each on the     *)
(* input, stops at the first that succeeds and returns the value of that   *)
(* alternative's result; no alternative after it is invoked.               *)
(***************************************************************************)
C3_FirstSuccessWins ==
    \A p \in 1..Len(calls) :
        calls[p].validator.kind = "or" =>
            LET c == calls[p]
                kids == ChildSeq(p)
                m == Len(kids)
            IN  /\ m <= Len(c.validator.validators)
                /\ \A j \in 1..m :
                      /\ calls[kids[j]].validator = c.validator.validators[j]
                      /\ calls[kids[j]].input = c.input
                /\ \A j \in 1..(m - 1) : calls[kids[j]].res.error # Undef
                /\ (m > 0 /\ calls[kids[m]].res.error = Undef)
                       => c.res = Success(calls[kids[m]].res.value)
                /\ (m = 0 \/ calls[kids[m]].res.error # Undef)
                       => m = Len(c.validator.validators) /\ c.res.error # Undef

\* both alternatives accept the input and would return different values;
\* the union returns the value of the first and does not invoke the second
C3_Witness ==
    /\ Called
    /\ validator.kind = "or"
    /\ Len(validator.validators) = 2
    /\ Len(ChildSeq(1)) = 1
    /\ result.error = Undef
    /\ unstable_validate(validator.validators[2], heap, input).res.error = Undef
    /\ unstable_validate(validator.validators[2], heap, input).res.value
           # result.value

(***************************************************************************)
(* C4.  When every alternative of a union fails (an empty union included)  *)
(* the result is one schema-violation leaf whose data is the input and     *)
(* whose schema is the union's own, listing the schemas of the             *)
(* alternatives in the given order; no error node of an alternative is     *)
(* part of it.                                                             *)
(***************************************************************************)
C4_AllFailed(p) ==
    /\ calls[p].validator.kind = "or"
    /\ Len(ChildSeq(p)) = Len(calls[p].validator.validators)
    /\ \A q \in ChildPositions(p) : calls[q].res.error # Undef

C4_UmbrellaFailure ==
    \A p \in 1..Len(calls) :
        C4_AllFailed(p) =>
            LET c == calls[p]
                alts == c.validator.validators
            IN  /\ c.res.value = Undef
                /\ c.res.error
                       = [type |-> "schema-violation",
                          data |-> c.input,
                          context |->
                              [schema |-> [type |-> "or",
                                           item |-> [j \in 1..Len(alts) |->
                                                        alts[j].schema],
                                           properties |-> <<>>,
                                           value |-> ""],
                               rules |-> <<>>]]
                /\ \A q \in ChildPositions(p) : calls[q].res.error # c.res.error

\* a union whose first alternative is an object validator failing inside a
\* property: the path of that failure is not part of the result
C4_Witness ==
    /\ Called
    /\ C4_AllFailed(1)
    /\ Len(ChildSeq(1)) = 2
    /\ calls[ChildSeq(1)[1]].res.error.type = "object-property"
    /\ result.error.type = "schema-violation"
    /\ result.error.data = input

\* the empty union fails for every input
C4_WitnessEmpty ==
    /\ Called
    /\ validator = or(<<>>)
    /\ input.k = "object"
    /\ result.error # Undef

(***************************************************************************)
(* C5.  As stated: whenever unstable_validate of a validator built from    *)
(* the library's factories succeeds, the value it returns is the input     *)
(* itself (for -0 given to constant(0): -0).                               *)
(***************************************************************************)
C5_ReturnsTheInput ==
    (Called /\ IsLibrary(validator) /\ result.error = Undef)
        => result.value = input

(***************************************************************************)
(* C6.  As stated: validate invokes validator.unstable_validate once, with *)
(* value; when the result has an error it throws a ValidationError whose   *)
(* root is that error node and whose message is the formatted text of the  *)
(* node; otherwise it throws nothing.                                      *)
(***************************************************************************)
C6_ThrowsValidationError ==
    op = "validate" =>
        /\ {p \in 1..Len(calls) : calls[p].depth = 0} = {1}
        /\ calls[1].validator = validator
        /\ calls[1].input = input
        /\ calls[1].res = result
        /\ IF result.error # Undef
           THEN /\ thrown.name = "ValidationError"
                /\ thrown.root = result.error
                /\ thrown.message = formatError(heap, result.error).text
           ELSE thrown = NoThrow

(***************************************************************************)
(* C7.  No call of unstable_validate or validate changes an array or an    *)
(* object: the heap after the call is the heap before it.                  *)
(***************************************************************************)
C7_HeapUnchanged == [][heap' = heap]_vars

\* validate has thrown for an object that holds a property without a
\* declared validator, and the object is still as it was
C7_Witness ==
    /\ op = "validate"
    /\ validator.kind = "object"
    /\ input.k = "object"
    /\ Len(validator.properties) = 1
    /\ Len(heap[input.n].entries) = 2
    /\ thrown.name = "ValidationError"
    /\ heap = InitialHeap

(***************************************************************************)
(* C8.  Every error a composition of the library's validators returns is   *)
(* a chain: container steps (array-index or object-property), each with    *)
(* exactly one child and nothing else, ending in exactly one leaf          *)
(* (schema-violation or rule-violation).                                   *)
(***************************************************************************)
RECURSIVE IsChain(_)
IsChain(node) ==
    /\ "type" \in DOMAIN node
    /\ CASE node.type = "schema-violation" ->
                DOMAIN node = {"type", "data", "context"}
         [] node.type = "rule-violation" ->
                DOMAIN node = {"type", "rule", "data", "context"}
         [] node.type = "array-index" ->
                /\ DOMAIN node = {"type", "data", "entry"}
                /\ DOMAIN node.entry = {"index", "node"}
                /\ IsChain(node.entry.node)
         [] node.type = "object-property" ->
                /\ DOMAIN node = {"type", "data", "entry"}
                /\ DOMAIN node.entry = {"property", "node"}
                /\ IsChain(node.entry.node)
         [] OTHER -> FALSE

RECURSIVE Steps(_)
Steps(node) == IF IsLeaf(node) THEN 0 ELSE 1 + Steps(node.entry.node)

C8_ErrorIsAChain ==
    (Called /\ IsLibrary(validator) /\ result.error # Undef)
        => IsChain(result.error)

\* a failure two containers deep, an array inside an object
C8_Witness ==
    /\ Called
    /\ IsLibrary(validator)
    /\ result.error # Undef
    /\ Steps(result.error) = 2
    /\ result.error.type = "object-property"
    /\ result.error.entry.node.type = "array-index"

(***************************************************************************)
(* C9.  Following the steps of the error chain from the input (v[property] *)
(* at an object-property step, v[index] at an array-index step) arrives at *)
(* the data of the leaf; the data of every step is the container indexed   *)
(* at that step, and every index is within the bounds of its array.        *)
(***************************************************************************)
RECURSIVE Addresses(_, _, _)
Addresses(h, node, v) ==
    /\ node.data = v
    /\ CASE node.type = "array-index" ->
                /\ v.k = "array"
                /\ node.entry.index >= 0
                /\ node.entry.index < length(h, v)
                /\ Addresses(h, node.entry.node, index(h, v, node.entry.index))
         [] node.type = "object-property" ->
                /\ v.k = "object"
                /\ Addresses(h, node.entry.node,
                             property(h, v, node.entry.property))
         [] OTHER -> TRUE

C9_PathAddressesTheLeaf ==
    (Called /\ IsLibrary(validator) /\ result.error # Undef)
        => Addresses(heap, result.error, input)

\* a failure at the last element of an array inside an array
C9_Witness ==
    /\ Called
    /\ IsLibrary(validator)
    /\ result.error # Undef
    /\ Steps(result.error) = 2
    /\ result.error.type = "array-index"
    /\ result.error.entry.index = 1
    /\ result.error.entry.node.type = "array-index"
    /\ LeafOf(result.error).data = Num(1)

(***************************************************************************)
(* C10.  The schema and rules of the leaf are those of the innermost       *)
(* validator that rejected its input, the data of the leaf is that input,  *)
(* and the message ends with that schema, those rules (when one is set)    *)
(* and that input, serialized.                                             *)
(***************************************************************************)
\* the invocation that produced the leaf of the error of invocation p
RECURSIVE RejectingCall(_, _)
RejectingCall(p, node) ==
    IF IsLeaf(node)
    THEN p
    ELSE RejectingCall(ChildSeq(p)[Len(ChildSeq(p))], node.entry.node)

C10_Tail(V, h, v) ==
    " expected schema: " \o SchemaJSON(V.schema)
        \o (IF \E j \in 1..Len(V.rules) : V.rules[j].val # Undef
            THEN " with rules: " \o RulesJSON(h, V.rules)
            ELSE "")
        \o "; received value: "
        \o (IF JSONstringify(h, v).defined THEN JSONstringify(h, v).text
            ELSE "undefined")

C10_InnermostValidatorReported ==
    (Called /\ IsLibrary(validator) /\ result.error # Undef) =>
        LET q == RejectingCall(1, result.error)
            leaf == LeafOf(result.error)
        IN  /\ calls[q].depth = Steps(result.error)
            /\ calls[q].res.error = leaf
            /\ leaf.context.schema = calls[q].validator.schema
            /\ leaf.context.rules = calls[q].validator.rules
            /\ leaf.data = calls[q].input
            /\ thrown.name = "ValidationError" =>
                   EndsWith(thrown.message,
                            C10_Tail(calls[q].validator, heap, calls[q].input))

\* object({a: object({a: string()})}) on {a: {a: 1}}
C10_Witness ==
    /\ op = "validate"
    /\ validator = object(<<Entry("a", object(<<Entry("a", string(NoRules))>>))>>)
    /\ thrown.name = "ValidationError"
    /\ thrown.message
           = "Validation failed at a.a due to schema mismatch; expected schema: {\"type\":\"string\"}; received value: 1"

(***************************************************************************)
(* C11.  As stated: the formatted path of an error chain is the            *)
(* concatenation, from the root to the leaf, of one segment per container  *)
(* step: "[index]" for an array-index step, "property" for an             *)
(* object-property step that is the first segment and ".property" for one  *)
(* that is not; the path never starts with a dot.                          *)
(***************************************************************************)
RECURSIVE C11_Segments(_, _)
C11_Segments(node, first) ==
    CASE node.type = "array-index" ->
            "[" \o ToString(node.entry.index) \o "]"
                \o C11_Segments(node.entry.node, FALSE)
      [] node.type = "object-property" ->
            (IF first THEN "" ELSE ".") \o node.entry.property
                \o C11_Segments(node.entry.node, FALSE)
      [] OTHER -> ""

C11_PathIsConcatenation ==
    (Called /\ IsLibrary(validator) /\ result.error # Undef)
        => /\ formatErrorPath(result.error) = C11_Segments(result.error, TRUE)
           /\ ~startsWith(formatErrorPath(result.error), ".")

\* the same, for the chains in which no property name is the empty string
RECURSIVE C11_AllNamed(_)
C11_AllNamed(node) ==
    CASE node.type = "array-index" -> C11_AllNamed(node.entry.node)
      [] node.type = "object-property" ->
            node.entry.property # "" /\ C11_AllNamed(node.entry.node)
      [] OTHER -> TRUE

C11_NamedPathIsConcatenation ==
    (Called /\ IsLibrary(validator) /\ result.error # Undef
        /\ C11_AllNamed(result.error))
        => /\ formatErrorPath(result.error) = C11_Segments(result.error, TRUE)
           /\ ~startsWith(formatErrorPath(result.error), ".")

(***************************************************************************)
(* C12.  When an invocation made by or, array or object throws, the        *)
(* combinator throws the same exception: it makes no further invocation    *)
(* (a union does not try its later alternatives), it returns neither a     *)
(* value nor an error node, and the caller of unstable_validate or         *)
(* validate receives that exception.                                       *)
(***************************************************************************)
C12_ChildThrew(p) ==
    /\ calls[p].validator.kind \in {"or", "array", "object"}
    /\ \E q \in ChildPositions(p) : calls[q].fault # NoThrow

C12_FaultPropagates ==
    /\ \A p \in 1..Len(calls) :
          C12_ChildThrew(p) =>
              LET kids == ChildSeq(p)
                  last == calls[kids[Len(kids)]]
              IN  /\ last.fault # NoThrow
                  /\ \A j \in 1..(Len(kids) - 1) : calls[kids[j]].fault = NoThrow
                  /\ calls[p].fault = last.fault
                  /\ calls[p].res = Success(Undef)
    /\ (Called /\ Len(calls) > 0 /\ calls[1].fault # NoThrow)
          => /\ thrown = calls[1].fault
             /\ result = Success(Undef)

\* or([throwingValidator, string()]) on a string: the second alternative
\* would accept it, and the Error of the first is what the call throws
C12_Witness ==
    /\ Called
    /\ validator.kind = "or"
    /\ Len(validator.validators) = 2
    /\ validator.validators[1] = throwingValidator
    /\ unstable_validate(validator.validators[2], heap, input).res.error = Undef
    /\ unstable_validate(validator.validators[2], heap, input).fault = NoThrow
    /\ Len(ChildSeq(1)) = 1
    /\ thrown = Error("Custom error")

\* the same exception leaves an array inside an object: no path step
C12_WitnessNested ==
    /\ op = "validate"
    /\ validator.kind = "object"
    /\ Len(calls) = 3
    /\ calls[2].validator.kind = "array"
    /\ calls[3].fault = Error("Custom error")
    /\ thrown = Error("Custom error")

(***************************************************************************)
(* C13.  With two invocations of unstable_validate of the same validator   *)
(* instance in progress at once, their statements interleaved in any       *)
(* order, each invocation returns the result the method returns when it    *)
(* runs alone on that input, and the heap is not changed.                  *)
(***************************************************************************)
C13_AsIfAlone ==
    /\ heap = InitialHeap
    /\ \A t \in Tasks :
          tasks[t].status = "done"
              => tasks[t].res
                     = unstable_validate(tasks[t].validator, heap,
                                         tasks[t].input).res

\* task 1 has returned a failure two steps deep while task 2, on another
\* input, is still inside the call of a child
C13_Witness ==
    /\ op = "concurrent"
    /\ tasks[1].status = "done"
    /\ tasks[1].res.error # Undef
    /\ Steps(tasks[1].res.error) = 2
    /\ tasks[2].status = "running"
    /\ Len(tasks[2].stack) >= 2
    /\ tasks[2].input # tasks[1].input
    /\ tasks[2].validator = tasks[1].validator

\* both tasks on the same input, both returned
C13_WitnessSameInput ==
    /\ op = "concurrent"
    /\ \A t \in Tasks : tasks[t].status = "done"
    /\ tasks[1].input = tasks[2].input
    /\ tasks[1].res.error # Undef
    /\ tasks[1].res = tasks[2].res

C15_Missing(h, v, k) ==
    \/ \A j \in 1..Len(h[v.n].entries) : h[v.n].entries[j].key # k
    \/ \E j \in 1..Len(h[v.n].entries) :
          h[v.n].entries[j].key = k /\ h[v.n].entries[j].val = Undef

C15_AbsentIsUndefined ==
    \A p \in 1..Len(calls) :
        C2_Case(p) =>
            LET c == calls[p]
                props == c.validator.properties
                kids == ChildSeq(p)
            IN  /\ Len(kids) <= Len(props)
                /\ c.res.error = Undef => Len(kids) = Len(props)
                /\ \A j \in 1..Len(kids) :
                      C15_Missing(heap, c.input, props[j]) =>
                          /\ calls[kids[j]].validator = c.validator.validators[j]
                          /\ calls[kids[j]].input = Undef
                          /\ calls[kids[j]].res.error # Undef =>
                                c.res = Failure(
                                    [type |-> "object-property",
                                     data |-> c.input,
                                     entry |-> [property |-> props[j],
                                                node |-> calls[kids[j]].res.error]])

\* the same, for the declared properties that are not names of
\* Object.prototype
C15_AbsentAndNotInheritedIsUndefined ==
    \A p \in 1..Len(calls) :
        C2_Case(p) =>
            LET c == calls[p]
                props == c.validator.properties
                kids == ChildSeq(p)
            IN  /\ Len(kids) <= Len(props)
                /\ c.res.error = Undef => Len(kids) = Len(props)
                /\ \A j \in 1..Len(kids) :
                      (C15_Missing(heap, c.input, props[j])
                          /\ props[j] \notin ObjectPrototype) =>
                          /\ calls[kids[j]].validator = c.validator.validators[j]
                          /\ calls[kids[j]].input = Undef
                          /\ calls[kids[j]].res.error # Undef =>
                                c.res = Failure(
                                    [type |-> "object-property",
                                     data |-> c.input,
                                     entry |-> [property |-> props[j],
                                                node |-> calls[kids[j]].res.error]])

\* {a: "a"} against a validator that also declares b: rejected at b, whose
\* validator was given undefined
C15_Witness ==
    /\ Called
    /\ C2_Case(1)
    /\ validator.properties = <<"a", "b">>
    /\ Len(heap[input.n].entries) = 1
    /\ heap[input.n].entries[1].key = "a"
    /\ Len(ChildSeq(1)) = 2
    /\ calls[ChildSeq(1)[2]].input = Undef
    /\ result.error # Undef
    /\ result.error.entry.property = "b"

\* or([number(), undefined_()]) makes the property optional: absent, and
\* present with the value undefined
C15_WitnessOptional ==
    /\ Called
    /\ validator = object(<<Entry("a", or(<<number(NoRules), undefined_>>))>>)
    /\ input.k = "object"
    /\ heap[input.n].entries = <<>>
    /\ result = Success(input)

C15_WitnessPresentUndefined ==
    /\ Called
    /\ validator = object(<<Entry("a", or(<<number(NoRules), undefined_>>))>>)
    /\ input = ObjF(8)
    /\ result = Success(input)

(***************************************************************************)
(* C16.  The result of an object validator on an object is decided by the  *)
(* values of the declared properties alone: any other object with the same *)
(* values under the declared names, whatever other properties it has or    *)
(* lacks, gets the same verdict (accepted, or rejected with the same       *)
(* property step and the same child error); and an object validator with   *)
(* no declared property accepts every object without invoking anything.    *)
(***************************************************************************)
C16_Objects == {y \in References : y.k = "object"}

C16_AgreeOnDeclared(V, x, y) ==
    \A j \in 1..Len(V.properties) :
        property(heap, x, V.properties[j]) = property(heap, y, V.properties[j])

C16_SameVerdict(r, x, q, y) ==
    IF r.error = Undef
    THEN r = Success(x) /\ q = Success(y)
    ELSE /\ q.error # Undef
         /\ r.error.type = "object-property"
         /\ q.error.type = "object-property"
         /\ r.error.data = x
         /\ q.error.data = y
         /\ r.error.entry = q.error.entry

C16_OnlyDeclaredPropertiesCount ==
    (Called /\ validator.kind = "object" /\ input.k = "object") =>
        /\ \A y \in C16_Objects :
              C16_AgreeOnDeclared(validator, input, y) =>
                  C16_SameVerdict(result, input,
                                  unstable_validate(validator, heap, y).res, y)
        /\ Len(validator.properties) = 0
              => result = Success(input) /\ Len(calls) = 1

\* {a: "a", b: 1} is accepted by a validator that declares a only, as are
\* {a: "a"} and {a: "a", b: ["a", 1]}
C16_Witness ==
    /\ Called
    /\ validator = object(<<Entry("a", string(NoRules))>>)
    /\ input = ObjF(4)
    /\ result = Success(input)
    /\ C16_AgreeOnDeclared(validator, input, ObjF(2))
    /\ C16_AgreeOnDeclared(validator, input, ObjF(12))

\* object() accepts an object that has properties
C16_WitnessNoValidators ==
    /\ Called
    /\ validator = object(<<>>)
    /\ input = ObjF(8)
    /\ result = Success(input)

(***************************************************************************)
(* The scalar validators on scalar inputs: string, number, constant and    *)
(* iso8601 with the rules, literals and strings of their tests.            *)
(***************************************************************************)
\* /^[a-z]+$/ of string.test.ts
lowercasePattern == RegExp("^[a-z]+$")

StringRules ==
    {[NoRules EXCEPT !.minLength = a, !.maxLength = b, !.pattern = c] :
        a \in {Undef, Num(1), Num(2), Num(3)},
        b \in {Undef, Num(0), Num(1), Num(2)},
        c \in {Undef, lowercasePattern}}

NumberRules ==
    {[NoRules EXCEPT !.min = a, !.max = b] :
        a \in {Undef, Num(-1), Num(0), Num(1), Num(2)},
        b \in {Undef, Num(-1), Num(0), Num(1), Num(2)}}

Literals ==
    {NaN, Infinity, NegInfinity, Num(0), NegZero, Num(1), Str("1"), Str(""),
     Str("a"), Bool(TRUE), Bool(FALSE), Null, Undef}

\* object validators, for the values that are objects without being made
\* by an object literal
BaseCheckValidators ==
    {object(<<>>), object(<<Entry("a", string(NoRules))>>),
     object(<<Entry("a", undefined_)>>)}

ScalarValidators ==
    {string(r) : r \in StringRules} \cup {number(r) : r \in NumberRules}
        \cup {constant(c) : c \in Literals} \cup {iso8601}
        \cup BaseCheckValidators

\* the strings of iso8601.test.ts that are written in the date-time string
\* format, with or without its parts, and some that are not
DateStrings ==
    {"2023-12-25T10:30:00Z", "2023-12-25T10:30:00.123Z",
     "2023-12-25T10:30:00.1234567Z", "2023-12-25T10:30:00+00:00",
     "2023-12-25T10:30:00-0500", "2023-12-25T10:30:00.123+05:30",
     "2020-02-29T00:00:00Z", "9999-12-31T23:59:59Z",
     "2023-12-25", "2023-12", "2023", "2023-12-25T10:30",
     "2023-12-25T10:30Z", "2023-12-25T10:30:00", "2023-12-25T10:30:00.5",
     "2023-W52-1", "2023-359", "T10:30:00Z", "20231225T103000Z",
     "2023-12-25T10:30:00,123Z", "2023-12-25T10:30:00.Z",
     "2023-12-25T10:30:00Z/2023-12-26T10:30:00Z", "P1W",
     "+002023-12-25T10:30:00Z", "2023/12/25T10:30:00Z",
     "2023-12-25 10:30:00Z", "2023-12-25T10:30:00UTC",
     "2023-12-25T10:30:00+5:00", "2023-12-25T10:30:00+05",
     "2023-12-25T10:30:00+", "2023-12-25T", "hello world",
     "2023-02-30T10:30:00Z", "2023-04-31T10:30:00Z", "2023-12-25T24:00:00Z",
     "2023-12-25T24:00:00.000Z", "2023-12-25T24:30:00Z",
     "2023-12-25T24:00:01Z", "2023-12-25T24:00:00.001Z",
     "2023-02-29T10:30:00Z", "2023-12-25T10:61:00Z", "2023-12-25T23:59:59Z",
     "2023-13-25T10:30:00Z", "2023-00-25T10:30:00Z", "2023-12-32T10:30:00Z",
     "2023-12-00T10:30:00Z", "2023-12-25T25:30:00Z", "2023-12-25T10:60:00Z",
     "2023-12-25T10:30:60Z", "23-12-25T10:30:00Z", "20233-12-25T10:30:00Z",
     "2023-1-25T10:30:00Z", "2023-12-25T1:30:00Z", "2023-12-25T10:30:0Z",
     "2023-12-25T10:30:00Zz", " 2023-12-25T10:30:00Z"}

ScalarInputs ==
    Literals \cup {Num(-2), Num(-1), Num(2), Num(3), BigInt(1), Str("aa"),
                   Str("aaa"), Str("A"), Str("a1"), Str("11"), ArrF(15),
                   ArrayOf(<<>>), ObjF(1), ObjF(2), DateObject, MapObject,
                   SetObject, RegExp("regex"), Function("f"), Symbol("test")}
        \cup {Str(t) : t \in DateStrings}

NextScalar ==
    \/ Idle /\ \E V \in ScalarValidators, x \in ScalarInputs :
                  UnstableValidate(V, x)
    \/ Return

SpecScalar == Init /\ [][NextScalar]_vars

\* what the call returned: "accepted", "schema-violation" or the name of the
\* rule of a rule-violation
Verdict(r) ==
    IF r.error = Undef
    THEN "accepted"
    ELSE IF r.error.type = "rule-violation" THEN r.error.rule
    ELSE r.error.type

\* /^[a-z]+$/.test(t)
Lowercase ==
    {"a", "b", "c", "d", "e", "f", "g", "h", "i", "j", "k", "l", "m", "n",
     "o", "p", "q", "r", "s", "t", "u", "v", "w", "x", "y", "z"}

test(pattern, t) ==
    Len(t) >= 1 /\ \A j \in 1..Len(t) : charAt(t, j) \in Lowercase

(***************************************************************************)
(* C17.  string(rules) checks that the value is a string, then minLength,  *)
(* then maxLength, then pattern, and reports the first of these that is    *)
(* violated and nothing else.                                              *)
(***************************************************************************)
C17_Expected(rules, x, withPattern) ==
    IF typeof(x) # "string"
    THEN "schema-violation"
    ELSE IF rules.minLength # Undef /\ Len(x.s) < rules.minLength.n
    THEN "minLength"
    ELSE IF rules.maxLength # Undef /\ Len(x.s) > rules.maxLength.n
    THEN "maxLength"
    ELSE IF withPattern /\ rules.pattern # Undef /\ ~test(rules.pattern, x.s)
    THEN "pattern"
    ELSE "accepted"

C17_RuleOrder ==
    (Called /\ validator.kind = "string") =>
        /\ Verdict(result) = C17_Expected(validator.closedRules, input, TRUE)
        /\ result.error # Undef => result.error.data = input
        /\ result.error = Undef => result.value = input

\* the same without the pattern step: the order the program implements
C17_LengthRuleOrder ==
    (Called /\ validator.kind = "string") =>
        /\ Verdict(result) = C17_Expected(validator.closedRules, input, FALSE)
        /\ result.error # Undef => result.error.data = input
        /\ result.error = Undef => result.value = input

\* "a" against minLength 2 and maxLength 0 violates both and reports
\* minLength
C17_WitnessLengths ==
    /\ Called
    /\ validator.kind = "string"
    /\ validator.closedRules.minLength = Num(2)
    /\ validator.closedRules.maxLength = Num(0)
    /\ input = Str("a")
    /\ Verdict(result) = "minLength"

\* "11" does not match /^[a-z]+$/ and is accepted
C17_WitnessPatternIgnored ==
    /\ Called
    /\ validator.kind = "string"
    /\ validator.closedRules = [NoRules EXCEPT !.pattern = lowercasePattern]
    /\ input = Str("11")
    /\ result = Success(input)

(***************************************************************************)
(* C18.  number(rules) answers schema-violation, never a rule-violation,   *)
(* to every value that is not a number and to NaN, Infinity and -Infinity, *)
(* whatever the rules; a finite number is checked against min, then        *)
(* against max, both inclusive, and only the first violated rule is        *)
(* reported.                                                               *)
(***************************************************************************)
C18_NotFinite(x) == x.k # "number" \/ x \in {NaN, Infinity, NegInfinity}

C18_Expected(rules, x) ==
    IF C18_NotFinite(x)
    THEN "schema-violation"
    ELSE IF rules.min # Undef /\ ~(x.n >= rules.min.n)
    THEN "min"
    ELSE IF rules.max # Undef /\ ~(x.n <= rules.max.n)
    THEN "max"
    ELSE "accepted"

C18_FiniteThenMinThenMax ==
    (Called /\ validator.kind = "number") =>
        /\ Verdict(result) = C18_Expected(validator.closedRules, input)
        /\ result.error # Undef => result.error.data = input
        /\ result.error = Undef => result.value = input

\* 1 against min 2 and max 0 is below min and above max, and min is reported
C18_Witness ==
    /\ Called
    /\ validator = number([NoRules EXCEPT !.min = Num(2), !.max = Num(0)])
    /\ input = Num(1)
    /\ result = Failure(RuleViolation(validator, "min", input))

\* Infinity against max 2 is a schema-violation
C18_WitnessInfinity ==
    /\ Called
    /\ validator = number([NoRules EXCEPT !.max = Num(2)])
    /\ input = Infinity
    /\ result = Failure(SchemaViolation(validator, input))

\* the bounds themselves are accepted
C18_WitnessInclusive ==
    /\ Called
    /\ validator = number([NoRules EXCEPT !.min = Num(1), !.max = Num(1)])
    /\ input = Num(1)
    /\ result = Success(input)

(***************************************************************************)
(* C19.  constant(literal) accepts an input exactly when the input is the  *)
(* literal under ===: the same type and the same value, +0 and -0 being    *)
(* one value and NaN being equal to nothing.  Every other input, NaN for   *)
(* the literal NaN included, is a schema-violation.                        *)
(***************************************************************************)
C19_Zeros == {Num(0), NegZero}

C19_SameTypeAndValue(a, b) ==
    /\ a.k = b.k
    /\ a # NaN
    /\ a = b \/ {a, b} \subseteq C19_Zeros

C19_AcceptsExactlyTheLiteral ==
    (Called /\ validator.kind = "constant") =>
        /\ result.error = Undef <=> C19_SameTypeAndValue(input, validator.value)
        /\ result.error # Undef => result = Failure(SchemaViolation(validator, input))
        /\ validator.value = NaN => result.error # Undef

\* constant(NaN) rejects NaN
C19_Witness ==
    /\ Called
    /\ validator = constant(NaN)
    /\ input = NaN
    /\ result = Failure(SchemaViolation(validator, input))

\* constant(1) rejects "1"
C19_WitnessNoCoercion ==
    /\ Called
    /\ validator = constant(Num(1))
    /\ input = Str("1")
    /\ result = Failure(SchemaViolation(validator, input))

(***************************************************************************)
(* C20.  iso8601() answers schema-violation to every value that is not a   *)
(* string and to every string that is not, from its first character to its *)
(* last, a date YYYY-MM-DD, a T, a time HH:mm:ss, an optional fraction of  *)
(* a dot and digits, and a zone Z, +HH:mm, -HH:mm, +HHmm or -HHmm, whether *)
(* or not the date parser of the host reads the string as a date; and it   *)
(* accepts a string only if it has this form and the parser reads it as a  *)
(* valid date.                                                             *)
(***************************************************************************)
\* t is a sequence of pieces, each a digit d or the character itself
C20_Shaped(t, shape) ==
    /\ Len(t) = Len(shape)
    /\ \A j \in 1..Len(shape) :
          IF charAt(shape, j) = "d"
          THEN charAt(t, j) \in Digit
          ELSE charAt(t, j) = charAt(shape, j)

C20_Zones == {"Z", "+dd:dd", "-dd:dd", "+dddd", "-dddd"}

RECURSIVE C20_Ds(_)
C20_Ds(n) == IF n = 0 THEN "" ELSE "d" \o C20_Ds(n - 1)

C20_Fractions(t) == {""} \cup {"." \o C20_Ds(n) : n \in 1..Len(t)}

C20_Grammar(t) ==
    \E f \in C20_Fractions(t), z \in C20_Zones :
        C20_Shaped(t, "dddd-dd-ddTdd:dd:dd" \o f \o z)

C20_OnlyTheGrammar ==
    (Called /\ validator.kind = "iso8601") =>
        /\ (typeof(input) # "string" \/ ~C20_Grammar(input.s))
              => result = Failure(SchemaViolation(validator, input))
        /\ result.error = Undef =>
              /\ typeof(input) = "string"
              /\ C20_Grammar(input.s)
              /\ DateIsValid(input.s)
              /\ result = Success(input)
        /\ result.error # Undef => result = Failure(SchemaViolation(validator, input))

\* the date-only string, a valid date for the host, is rejected
C20_Witness ==
    /\ Called
    /\ validator = iso8601
    /\ input = Str("2023-12-25")
    /\ DateIsValid(input.s)
    /\ result = Failure(SchemaViolation(validator, input))

\* a date-time without a zone, a valid date for the host, is rejected
C20_WitnessNoZone ==
    /\ Called
    /\ validator = iso8601
    /\ input = Str("2023-12-25T10:30:00")
    /\ DateIsValid(input.s)
    /\ result = Failure(SchemaViolation(validator, input))

\* a string of the grammar that is a valid date is accepted
C20_WitnessAccepted ==
    /\ Called
    /\ validator = iso8601
    /\ input = Str("2023-12-25T10:30:00.123+05:30")
    /\ result = Success(input)

\* a string of the grammar that is no valid date is rejected
C20_WitnessInvalidDate ==
    /\ Called
    /\ validator = iso8601
    /\ input = Str("2023-13-25T10:30:00Z")
    /\ C20_Grammar(input.s)
    /\ result = Failure(SchemaViolation(validator, input))

(***************************************************************************)
(* C21.  Among the strings of the iso8601 grammar, those with a month      *)
(* 01..12, a day 01..31 (whatever the month), an hour up to 24, a minute   *)
(* up to 59 and a second up to 59 are accepted, and those with month 00 or *)
(* above 12, day 00 or above 31, hour above 24, minute above 59 or second  *)
(* above 59 are rejected.                                                  *)
(***************************************************************************)
C21_Month == TwoDigits(input.s, 6)
C21_Day == TwoDigits(input.s, 9)
C21_Hour == TwoDigits(input.s, 12)
C21_Minute == TwoDigits(input.s, 15)
C21_Second == TwoDigits(input.s, 18)

C21_Case ==
    /\ Called
    /\ validator.kind = "iso8601"
    /\ typeof(input) = "string"
    /\ C20_Grammar(input.s)

C21_DateInRange == C21_Month \in 1..12 /\ C21_Day \in 1..31

C21_FractionEnd ==
    CHOOSE e \in FractionEnds(input.s, 19) :
        \A f \in FractionEnds(input.s, 19) : f <= e

C21_WitnessMidnight ==
    /\ C21_Case
    /\ input = Str("2023-12-25T24:00:00Z")
    /\ result = Success(input)

C21_WitnessHalfPastMidnight ==
    /\ C21_Case
    /\ input = Str("2023-12-25T24:30:00Z")
    /\ result = Failure(SchemaViolation(validator, input))

(***************************************************************************)
(* C22.  An array validator with a minLength answers an array shorter than *)
(* minLength with the rule-violation leaf for minLength on the array       *)
(* itself, without an array-index step and without invoking the item       *)
(* validator, even when an element would fail; and with no item validator  *)
(* it accepts exactly the arrays of length at least minLength, without     *)
(* examining an element.                                                   *)
(***************************************************************************)
C22_MinLength == validator.closedRules.minLength.n

C22_MinLengthBeforeItems ==
    (Called /\ validator.kind = "array"
            /\ validator.closedRules.minLength # Undef) =>
        /\ (isArray(input) /\ length(heap, input) < C22_MinLength) =>
              /\ result = Failure(RuleViolation(validator, "minLength", input))
              /\ Len(calls) = 1
        /\ ~validator.hasItem =>
              /\ result.error = Undef <=>
                    (isArray(input) /\ length(heap, input) >= C22_MinLength)
              /\ result.error = Undef => result = Success(input)
              /\ Len(calls) = 1

\* [1] against array(string(), { minLength: 2 }): too short, and its element
\* is no string
C22_Witness ==
    /\ Called
    /\ validator = array(<<string(NoRules)>>, MinLength(2))
    /\ input = ArrayOf(<<Num(1)>>)
    /\ result = Failure(RuleViolation(validator, "minLength", input))
    /\ Len(calls) = 1

\* [undefined, 1n, -0] against array({ minLength: 2 })
C22_WitnessNoItem ==
    /\ Called
    /\ validator = array(<<>>, MinLength(2))
    /\ input = ArrF(15)
    /\ result = Success(input)

(***************************************************************************)
(* C23.  An object validator passes its base check exactly on the values   *)
(* that are objects other than null and arrays, the objects no object      *)
(* literal made (Date, RegExp, Map, Set) included: object() accepts these  *)
(* and only these, and null, undefined, arrays, functions, symbols and the *)
(* other primitives are answered with the schema-violation leaf that       *)
(* carries the object validator's schema.                                  *)
(***************************************************************************)
C23_NonNullNonArrayObject(x) ==
    x.k \in {"object", "date", "regexp", "map", "set"}

C23_Rejected(x) ==
    x.k \in {"null", "undefined", "array", "function", "symbol", "boolean",
             "number", "string", "bigint"}

C23_WitnessFunction ==
    /\ Called
    /\ validator = object(<<>>)
    /\ input = Function("f")
    /\ result = Failure(SchemaViolation(validator, input))

C23_WitnessArray ==
    /\ Called
    /\ validator = object(<<>>)
    /\ input = ArrayOf(<<>>)
    /\ result = Failure(SchemaViolation(validator, input))

(***************************************************************************)
(* C24.  The message of a ValidationError contains " with rules: " and the *)
(* JSON text of the rules exactly when some rule of the leaf's context has *)
(* a value other than undefined, so never for a validator without rules or *)
(* with unset rules only; and it contains " at " and the path exactly when *)
(* the formatted path is not empty.                                        *)
(***************************************************************************)
C24_Contains(message, part) ==
    \E i \in 1..(Len(message) - Len(part) + 1) :
        SubSeq(message, i, i + Len(part) - 1) = part

C24_Leaf == LeafOf(thrown.root)

C24_SomeRuleIsSet ==
    \E j \in 1..Len(C24_Leaf.context.rules) :
        C24_Leaf.context.rules[j].val # Undef

C24_Case == op = "validate" /\ thrown.name = "ValidationError"

C24_RulesAndPathClauses ==
    C24_Case =>
        /\ C24_Contains(thrown.message, " with rules: ") <=> C24_SomeRuleIsSet
        /\ C24_SomeRuleIsSet =>
              C24_Contains(thrown.message,
                           " with rules: "
                               \o RulesJSON(heap, C24_Leaf.context.rules)
                               \o "; received value: ")
        /\ C24_Contains(thrown.message, " at ")
              <=> formatErrorPath(thrown.root) # ""
        /\ formatErrorPath(thrown.root) # "" =>
              C24_Contains(thrown.message,
                           "Validation failed at "
                               \o formatErrorPath(thrown.root) \o " due to ")

\* array({ minLength: 2 }) on [1]: the rules are printed and there is no
\* path
C24_Witness ==
    /\ C24_Case
    /\ validator = array(<<>>, MinLength(2))
    /\ input = ArrayOf(<<Num(1)>>)
    /\ thrown.message
           = "Validation failed due to rule violation: minLength; expected schema: {\"type\":\"array\"} with rules: {\"minLength\":2}; received value: [1]"

\* array(string()) on [1]: a path, and rules that are all unset
C24_WitnessNoRules ==
    /\ C24_Case
    /\ validator = array(<<string(NoRules)>>, NoRules)
    /\ input = ArrayOf(<<Num(1)>>)
    /\ thrown.message
           = "Validation failed at [0] due to schema mismatch; expected schema: {\"type\":\"string\"}; received value: 1"

(***************************************************************************)
(* Validators whose schema and rules fields were assigned after            *)
(* construction: validator.schema = ...; validator.rules = ...             *)
(***************************************************************************)
Descriptors ==
    {[schema |-> [Schema("number") EXCEPT !.value = "changed"],
      rules |-> <<Rule("minLength", Num(3)), Rule("min", Num(3))>>],
     [schema |-> Schema("string"),
      rules |-> <<>>]}

\* the fields of V alone
Reassigned(V, d) == [V EXCEPT !.schema = d.schema, !.rules = d.rules]

\* the fields of V and of every validator V was built from
RECURSIVE ReassignedThroughout(_, _)
ReassignedThroughout(V, d) ==
    [Reassigned(V, d) EXCEPT
        !.validators = [j \in 1..Len(V.validators) |->
                           ReassignedThroughout(V.validators[j], d)]]

ConstructedValidators == ValidatorsOfDepth(1)

ReassignedValidators ==
    ConstructedValidators
        \cup {Reassigned(V, d) : V \in ConstructedValidators, d \in Descriptors}
        \cup {ReassignedThroughout(V, d) :
                  V \in ConstructedValidators, d \in Descriptors}

NextReassigned ==
    \/ Idle /\ \E V \in ReassignedValidators, x \in Inputs :
                  UnstableValidate(V, x)
    \/ Return

SpecReassigned == Init /\ [][NextReassigned]_vars

(***************************************************************************)
(* C25.  What unstable_validate decides, and the path and the leaf kind of *)
(* the error it returns, do not depend on the schema and rules fields of   *)
(* the validator or of the validators it was built from: with these fields *)
(* assigned other values, the same inputs are accepted, and the rejected   *)
(* ones get the same steps, the same leaf kind, rule and data; only the    *)
(* context of the leaf differs.                                            *)
(***************************************************************************)
\* an error chain without the context of its leaf
RECURSIVE C25_Chain(_)
C25_Chain(node) ==
    CASE node.type = "schema-violation" ->
            <<[type |-> node.type, step |-> "", data |-> node.data]>>
      [] node.type = "rule-violation" ->
            <<[type |-> node.type, step |-> node.rule, data |-> node.data]>>
      [] node.type = "array-index" ->
            <<[type |-> node.type, step |-> ToString(node.entry.index),
               data |-> node.data]>> \o C25_Chain(node.entry.node)
      [] OTHER ->
            <<[type |-> node.type, step |-> node.entry.property,
               data |-> node.data]>> \o C25_Chain(node.entry.node)

C25_SameButContext(r, q) ==
    /\ r.value = q.value
    /\ r.error = Undef <=> q.error = Undef
    /\ r.error # Undef => C25_Chain(r.error) = C25_Chain(q.error)

C25_Variants ==
    {Reassigned(validator, d) : d \in Descriptors}
        \cup {ReassignedThroughout(validator, d) : d \in Descriptors}

C25_DescriptorsNotConsulted ==
    Called =>
        \A W \in C25_Variants :
            C25_SameButContext(result, unstable_validate(W, heap, input).res)

\* string({ minLength: 2 }) whose rules now say minLength 3 and whose schema
\* says number: "abc" is accepted, "a" is rejected for minLength with the
\* new fields as context
C25_Witness ==
    /\ Called
    /\ \E d \in Descriptors :
          /\ d.rules # <<>>
          /\ validator = Reassigned(string(MinLength(2)), d)
          /\ input = Str("a")
          /\ result = Failure(RuleViolation(validator, "minLength", input))
          /\ result.error.context.schema = d.schema
          /\ LeafOf(unstable_validate(string(MinLength(2)), heap, input).res.error).context
                # result.error.context

\* array(string()) with the fields of the array and of its item reassigned
C25_WitnessNested ==
    /\ Called
    /\ \E d \in Descriptors :
          /\ validator = ReassignedThroughout(array(<<string(NoRules)>>, NoRules), d)
          /\ input = ArrayOf(<<Str("a"), Num(1)>>)
          /\ result.error # Undef
          /\ result.error.type = "array-index"
          /\ result.error.entry.index = 1
          /\ result.error.entry.node.context.schema = d.schema

(***************************************************************************)
(* C26.  Every call of unstable_validate returns a result.  While it runs, *)
(* the loop of an array, object or or validator is at a position within    *)
(* the elements, the declared properties or the alternatives, the child    *)
(* invoked at a position is the validator of that position on the value of *)
(* that position, a child is invoked from the loop test only, and the      *)
(* position moves forward by one between two invocations, so no element,   *)
(* property or alternative gets a second invocation.  The error a call     *)
(* returns is formatted into a message and a path with at most one segment *)
(* per step.                                                               *)
(***************************************************************************)
C26_InLoop(f) ==
    /\ f.validator.kind \in {"array", "object", "or"}
    /\ f.pc \in {"loop", "wait", "resume"}

\* how many children the invocation of frame f may invoke
C26_Positions(f) ==
    CASE f.validator.kind = "array" -> length(heap, f.input)
      [] f.validator.kind = "object" -> Len(f.validator.properties)
      [] OTHER -> Len(f.validator.validators)

C26_ChildValidator(f, i) ==
    IF f.validator.kind = "array"
    THEN f.validator.validators[1]
    ELSE f.validator.validators[i + 1]

C26_ChildInput(f, i) ==
    CASE f.validator.kind = "array" -> index(heap, f.input, i)
      [] f.validator.kind = "object" ->
            property(heap, f.input, f.validator.properties[i + 1])
      [] OTHER -> f.input

C26_Counter(ls, t, d, f) == ReadLocal(ls, Activation(t, d, f.validator))

C26_LoopsWithinBounds ==
    \A t \in Tasks :
        tasks[t].status = "running" =>
            \A d \in 1..Len(tasks[t].stack) :
                LET f == tasks[t].stack[d]
                    i == C26_Counter(locals, t, d, f)
                IN  C26_InLoop(f) =>
                        /\ i \in 0..C26_Positions(f)
                        /\ f.pc \in {"wait", "resume"} => i < C26_Positions(f)
                        /\ f.pc = "wait" =>
                              /\ d < Len(tasks[t].stack)
                              /\ tasks[t].stack[d + 1].validator
                                    = C26_ChildValidator(f, i)
                              /\ tasks[t].stack[d + 1].input
                                    = C26_ChildInput(f, i)

C26_LoopsAdvance ==
    \A t \in Tasks :
        (tasks[t].status = "running" /\ tasks'[t].status = "running") =>
            /\ Len(tasks'[t].stack) <= Len(tasks[t].stack) + 1
            /\ Len(tasks'[t].stack) = Len(tasks[t].stack) + 1 =>
                  tasks[t].stack[Len(tasks[t].stack)].pc \in {"loop"}
            /\ \A d \in 1..Len(tasks[t].stack) :
                  d <= Len(tasks'[t].stack) =>
                      LET f == tasks[t].stack[d]
                          g == tasks'[t].stack[d]
                      IN  (C26_InLoop(f) /\ C26_InLoop(g)) =>
                              IF f.pc = "resume" /\ g.pc = "loop"
                              THEN C26_Counter(locals', t, d, g)
                                     = C26_Counter(locals, t, d, f) + 1
                              ELSE C26_Counter(locals', t, d, g)
                                     = C26_Counter(locals, t, d, f)

RECURSIVE C26_Steps(_)
C26_Steps(node) == IF IsLeaf(node) THEN 0 ELSE 1 + C26_Steps(node.entry.node)

RECURSIVE C26_Nesting(_)
C26_Nesting(V) ==
    IF V.validators = <<>>
    THEN 0
    ELSE 1 + (CHOOSE m \in {C26_Nesting(V.validators[j]) :
                                j \in 1..Len(V.validators)} :
                 \A j \in 1..Len(V.validators) :
                     C26_Nesting(V.validators[j]) <= m)

C26_ErrorsAreFormatted ==
    \A t \in Tasks :
        (tasks[t].status = "done" /\ tasks[t].res.error # Undef) =>
            /\ C26_Steps(tasks[t].res.error) <= C26_Nesting(tasks[t].validator)
            /\ IsLeaf(LeafOf(tasks[t].res.error))
            /\ \/ formatError(heap, tasks[t].res.error).threw
               \/ Len(formatError(heap, tasks[t].res.error).text) > 0

C26_Terminates ==
    /\ [](C26_LoopsWithinBounds /\ C26_ErrorsAreFormatted)
    /\ [][C26_LoopsAdvance]_vars
    /\ \A t \in Tasks :
          (tasks[t].status = "running") ~> (tasks[t].status = "done")

\* [["a"], [1, "a"]] against array(array(string())): the call has returned,
\* with the error of the first element of the second array
C26_Witness ==
    /\ op = "concurrent"
    /\ tasks[1].status = "done"
    /\ tasks[1].validator
          = array(<<array(<<string(NoRules)>>, NoRules)>>, NoRules)
    /\ tasks[1].input = ArrF(13)
    /\ tasks[1].res.error # Undef
    /\ C26_Steps(tasks[1].res.error) = 2

(***************************************************************************)
(* C27.  An array validator succeeds exactly when the input is an array,   *)
(* is at least minLength long when minLength is set, and the item          *)
(* validator accepts each of its elements; an object validator succeeds    *)
(* exactly when the input is an object other than null and arrays and each *)
(* declared validator accepts the value read from the input under its      *)
(* property.  No combinator succeeds on a value a child of which its child *)
(* validator rejects.                                                      *)
(***************************************************************************)
C27_Accepts(V, x) == unstable_validate(V, heap, x).res.error = Undef

C27_ArrayAccepts(V, x) ==
    /\ isArray(x)
    /\ V.closedRules.minLength # Undef
          => length(heap, x) >= V.closedRules.minLength.n
    /\ V.hasItem =>
          \A i \in 0..(length(heap, x) - 1) :
              C27_Accepts(V.validators[1], index(heap, x, i))

C27_ObjectAccepts(V, x) ==
    /\ typeof(x) = "object"
    /\ x # Null
    /\ ~isArray(x)
    /\ \A j \in 1..Len(V.properties) :
          C27_Accepts(V.validators[j], property(heap, x, V.properties[j]))

C27_SucceedsIffAllChildrenAccept ==
    Called =>
        /\ validator.kind = "array" =>
              (result.error = Undef <=> C27_ArrayAccepts(validator, input))
        /\ validator.kind = "object" =>
              (result.error = Undef <=> C27_ObjectAccepts(validator, input))

\* ["a", 1] against array(string()): the second element is rejected, and so
\* is the array
C27_Witness ==
    /\ Called
    /\ validator = array(<<string(NoRules)>>, NoRules)
    /\ input = ArrayOf(<<Str("a"), Num(1)>>)
    /\ C27_Accepts(validator.validators[1], index(heap, input, 0))
    /\ ~C27_Accepts(validator.validators[1], index(heap, input, 1))
    /\ result.error # Undef

\* {a: "a", b: 1} against object({a: string(), b: number()}) is accepted
C27_WitnessObject ==
    /\ Called
    /\ validator = object(<<Entry("a", string(NoRules)),
                             Entry("b", number(NoRules))>>)
    /\ input = ObjF(4)
    /\ result = Success(input)

(***************************************************************************)
(* C28.  A result is a success when it has no error, whether or not it has *)
(* a value.  or returns at the first alternative whose result has no       *)
(* error, with that result's value, be it undefined; array and object go   *)
(* on after an element or a property whose result has no error and fail    *)
(* only at one whose result has an error; validate throws only when the    *)
(* result has an error.  No result has both an error and a value.          *)
(***************************************************************************)
C28_Last(S) == CHOOSE q \in S : \A m \in S : m <= q

C28_ErrorAloneDecides(p) ==
    LET S == ChildPositions(p)
        last == C28_Last(S)
        V == calls[p].validator
    IN  (S # {} /\ V.kind \in {"array", "object", "or"}) =>
            IF V.kind = "or"
            THEN /\ \A q \in S \ {last} : calls[q].res.error # Undef
                 /\ calls[p].res.error = Undef <=> calls[last].res.error = Undef
                 /\ calls[p].res.error = Undef
                       => calls[p].res = Success(calls[last].res.value)
            ELSE /\ \A q \in S \ {last} : calls[q].res.error = Undef
                 /\ calls[p].res.error = Undef <=> calls[last].res.error = Undef
                 /\ calls[p].res.error # Undef
                       => calls[p].res.error.entry.node = calls[last].res.error

C28_SuccessIsAbsenceOfError ==
    Called =>
        /\ \A p \in 1..Len(calls) :
              /\ ~(calls[p].res.error # Undef /\ calls[p].res.value # Undef)
              /\ C28_ErrorAloneDecides(p)
        /\ ~(result.error # Undef /\ result.value # Undef)
        /\ op = "validate" => (thrown = NoThrow <=> result.error = Undef)

\* or([undefined_(), number()]) on undefined succeeds with the value
\* undefined
C28_Witness ==
    /\ Called
    /\ validator = or(<<undefined_, number(NoRules)>>)
    /\ input = Undef
    /\ result = Success(Undef)
    /\ Len(calls) = 2
    /\ calls[2].res = Success(Undef)

\* array(undefined_()) on [undefined, undefined]
C28_WitnessItem ==
    /\ Called
    /\ validator = array(<<undefined_>>, NoRules)
    /\ input = ArrF(17)
    /\ result = Success(input)
    /\ Len(calls) = 3

\* object({a: constant(undefined)}) on {}
C28_WitnessProperty ==
    /\ Called
    /\ validator = object(<<Entry("a", constant(Undef))>>)
    /\ input = ObjF(1)
    /\ result = Success(input)
    /\ calls[2].res = Success(Undef)

\* validate(undefined, undefined_()) returns
C28_WitnessValidate ==
    /\ op = "validate"
    /\ validator = undefined_
    /\ input = Undef
    /\ result = Success(Undef)
    /\ thrown = NoThrow

(***************************************************************************)
(* The caller keeps the rules object it gave to a factory and assigns to   *)
(* its properties afterwards.  string and number read rules?.minLength,    *)
(* rules?.maxLength, rules?.min and rules?.max from that object at every   *)
(* call; array copies minLength into an object of its own when it is       *)
(* built.  The rules field of a validator is a copy made at construction   *)
(* in all three.                                                           *)
(***************************************************************************)
CallerStringRules ==
    {[NoRules EXCEPT !.minLength = a, !.maxLength = b] :
        a \in {Undef, Num(1), Num(2)}, b \in {Undef, Num(1), Num(2)}}

CallerNumberRules ==
    {[NoRules EXCEPT !.min = a, !.max = b] :
        a \in {Undef, Num(0), Num(1)}, b \in {Undef, Num(0), Num(1)}}

CallerArrayRules ==
    {[NoRules EXCEPT !.minLength = a] : a \in {Undef, Num(1), Num(2)}}

\* V after the rules object it was built with has become r
AfterMutation(V, r) ==
    IF V.kind \in {"string", "number"}
    THEN [V EXCEPT !.closedRules = r]
    ELSE V

\* rules.minLength = ...; result = V.unstable_validate(x)
ValidateAfterMutation(V, r, x) == UnstableValidate(AfterMutation(V, r), x)

NextMutated ==
    \/ Idle /\ \E r \in CallerStringRules, q \in CallerStringRules, x \in Inputs :
                  ValidateAfterMutation(string(r), q, x)
    \/ Idle /\ \E r \in CallerNumberRules, q \in CallerNumberRules, x \in Inputs :
                  ValidateAfterMutation(number(r), q, x)
    \/ Idle /\ \E r \in CallerArrayRules, q \in CallerArrayRules, x \in Inputs :
                  ValidateAfterMutation(array(<<>>, r), q, x)
    \/ Return

SpecMutated == Init /\ [][NextMutated]_vars

(***************************************************************************)
(* C29.  For string(rules) and number(rules), whatever the caller has done *)
(* to the rules object since, the thresholds a call decides with are the   *)
(* ones in validator.rules, which are the ones reported in the context of  *)
(* an error leaf, and the call accepts what the validator accepted when it *)
(* was built.                                                              *)
(***************************************************************************)
\* the validator deciding with the thresholds of its rules field
C29_AsPublished(V) ==
    [V EXCEPT !.closedRules = [f \in DOMAIN NoRules |-> RuleValue(V, f)]]

C29_ThresholdsArePublished(V) ==
    /\ \A j \in 1..Len(V.rules) :
          V.closedRules[V.rules[j].name] = V.rules[j].val
    /\ result = unstable_validate(C29_AsPublished(V), heap, input).res
    /\ result.error # Undef => LeafOf(result.error).context.rules = V.rules

C29_RulesFixedAtConstruction ==
    (Called /\ validator.kind \in {"string", "number"}) =>
        C29_ThresholdsArePublished(validator)

\* the same for array, which holds
C29_ArrayRulesFixedAtConstruction ==
    (Called /\ validator.kind = "array") =>
        C29_ThresholdsArePublished(validator)

\* string({ minLength: 1 }), then rules.minLength = 2: "a" is rejected for
\* minLength with the context { minLength: 1 }
C29_WitnessMutated ==
    /\ Called
    /\ validator = AfterMutation(string(MinLength(1)), MinLength(2))
    /\ input = Str("a")
    /\ Verdict(result) = "minLength"
    /\ RuleValue(validator, "minLength") = Num(1)

(***************************************************************************)
(* C30.  Whenever the error chain has at least one container step, the     *)
(* formatted path is not empty and the message of the ValidationError      *)
(* contains " at " followed by the path, whatever the declared property    *)
(* names are, the empty string included, and however deep the chain is.    *)
(***************************************************************************)
C30_PathAndClause(node, message) ==
    /\ formatErrorPath(node) # ""
    /\ C24_Contains(message, " at " \o formatErrorPath(node) \o " due to ")

C30_ContainerStepGivesPath ==
    /\ (Called /\ IsLibrary(validator) /\ result.error # Undef
            /\ Steps(result.error) >= 1)
          => formatErrorPath(result.error) # ""
    /\ (C24_Case /\ Steps(thrown.root) >= 1)
          => C30_PathAndClause(thrown.root, thrown.message)

\* the same, for the chains in which no property name is the empty string
C30_NamedStepGivesPath ==
    /\ (Called /\ IsLibrary(validator) /\ result.error # Undef
            /\ Steps(result.error) >= 1 /\ C11_AllNamed(result.error))
          => formatErrorPath(result.error) # ""
    /\ (C24_Case /\ Steps(thrown.root) >= 1 /\ C11_AllNamed(thrown.root))
          => C30_PathAndClause(thrown.root, thrown.message)

\* object({ "": string() }) rejects its one property and the message has
\* no path
C30_WitnessEmptyName ==
    /\ C24_Case
    /\ validator = object(<<Entry("", string(NoRules))>>)
    /\ Steps(thrown.root) = 1
    /\ thrown.root.entry.property = ""
    /\ formatErrorPath(thrown.root) = ""
    /\ ~C24_Contains(thrown.message, " at ")

====
